---- MODULE Spec2Model ----
(***************************************************************************)
(* Precedent retrieval and recommendation engine of chemtools              *)
(* (chemtools/precedent.py, chemtools/recommend.py,                        *)
(* chemtools/reaction_similarity.py).                                      *)
(*                                                                         *)
(* Conventions of the model                                                *)
(*  - A Python string is a sequence of tokens (words and the separator     *)
(*    characters the code splits or replaces on), so that splitting,       *)
(*    stripping, lower-casing and replacing are computed, not assumed.     *)
(*    "LG:Br|NUC:aniline" is <<"LG", ":", "Br", "|", "NUC", ":",           *)
(*    "aniline">>; the en dash of "Ullmann C-N" is the token "ENDASH".     *)
(*  - A Python value is a record [t, n, s]: t its type tag, n its number   *)
(*    (int, bool, float in the unit the field uses), s its tokens (str) or *)
(*    its elements (tuple, list).                                          *)
(*  - Similarities are fixed-point numbers in units of 1/ONE.              *)
(***************************************************************************)
EXTENDS Integers, Sequences, FiniteSets, TLC

VARIABLES
    simA,       \* _similarity: first feature dict
    simB,       \* _similarity: second feature dict
    simOut,     \* _similarity: the value returned, or NotRun before the call
    poolIn,     \* _candidate_pool: its arguments
    poolOut,    \* _candidate_pool: [exc, pool] returned, or NotRun before the call
    env,        \* the process's surroundings: dataset files, environment flag,
                \* encoder installed, hash seed
    loaded,     \* the lru_cache of _load: [done, rows]
    loadCount,  \* how many times the body of _load has run
    knnCache,   \* the lru_cache of _knn_cached: a sequence of [key, pack]
    listHeap,   \* the precedents list objects, by identity
    fpCache,    \* the lru_cache of encode_drfp_cached: key -> vector
    precomp,    \* _PRECOMP: key -> vector
    call,       \* the arguments of the last knn call
    ret,        \* what the last knn call returned to its caller, or raised
    budget,     \* calls the caller still makes
    history,    \* the calls that returned or raised so far, each with the pack as
                \* its caller saw it on return
    pc,         \* where each thread of the process is in its knn call
    plateIn,    \* the plate designer: the precedents it works from and plate_size
    plateOut,   \* the plate designer: [exc, rows, error] returned, or NotRun
    recIn,      \* the recommender: the precedents and support of the pack it got
    recOut      \* the recommender: [exc, rec] with the recommendation it returned

simVars == <<simA, simB, simOut>>
poolVars == <<poolIn, poolOut>>
svcVars == <<env, loaded, loadCount, knnCache, listHeap, fpCache, precomp, call, ret, budget,
             history, pc>>
plateVars == <<plateIn, plateOut>>
recVars == <<recIn, recOut>>

vars == <<simA, simB, simOut, poolIn, poolOut, env, loaded, loadCount, knnCache, listHeap, fpCache,
          precomp, call, ret, budget, history, pc, plateIn, plateOut, recIn, recOut>>

----------------------------------------------------------------------------
(* Python values *)

NoneV == [t |-> "none", n |-> 0, s |-> <<>>]
IntV(i) == [t |-> "int", n |-> i, s |-> <<>>]
BoolV(b) == [t |-> "bool", n |-> IF b THEN 1 ELSE 0, s |-> <<>>]
StrV(toks) == [t |-> "str", n |-> 0, s |-> toks]
TupleV(elems) == [t |-> "tuple", n |-> 0, s |-> elems]
ListV(elems) == [t |-> "list", n |-> 0, s |-> elems]
DictV == [t |-> "dict", n |-> 1, s |-> <<>>]
Absent == [t |-> "absent", n |-> 0, s |-> <<>>]
NotRun == [t |-> "notrun", n |-> 0, s |-> <<>>]

Word(w) == StrV(<<w>>)
EmptyStr == StrV(<<>>)

\* bool(v): Python truthiness
Truthy(v) ==
    CASE v.t = "none" -> FALSE
      [] v.t = "bool" -> v.n = 1
      [] v.t = "int" -> v.n # 0
      [] v.t = "str" -> v.s # <<>>
      [] v.t = "tuple" -> v.s # <<>>
      [] v.t = "list" -> v.s # <<>>
      [] OTHER -> TRUE

\* v == w in Python: bool is a subclass of int, other types compare by type
PyEq(v, w) ==
    IF v.t \in {"int", "bool"} /\ w.t \in {"int", "bool"}
    THEN v.n = w.n
    ELSE v = w

\* d.get(k): None for a missing key
Get(d, k) == IF k \in DOMAIN d THEN d[k] ELSE NoneV

\* (x or dflt)
OrElse(x, dflt) == IF Truthy(x) THEN x ELSE dflt

\* the decimal text of a small integer
IntTok(i) ==
    CASE i = 0 -> "0" [] i = 1 -> "1" [] i = 2 -> "2" [] i = 3 -> "3"
      [] i = 8 -> "8" [] i = 16 -> "16" [] i = 50 -> "50" [] i = 100 -> "100"
      [] OTHER -> "int"

\* str(v)
PyStr(v) ==
    CASE v.t = "str" -> v.s
      [] v.t = "none" -> <<"None">>
      [] v.t = "bool" -> IF v.n = 1 THEN <<"True">> ELSE <<"False">>
      [] v.t = "int" -> <<IntTok(v.n)>>
      [] OTHER -> <<"repr">>

\* str.lower() of one token
LowerTok(w) ==
    CASE w = "Br" -> "br" [] w = "Cl" -> "cl" [] w = "I" -> "i"
      [] w = "LG" -> "lg" [] w = "NUC" -> "nuc"
      [] w = "Aniline" -> "aniline"
      [] w = "None" -> "none" [] w = "True" -> "true" [] w = "False" -> "false"
      [] w = "Ullmann" -> "ullmann" [] w = "Ullmann_CN" -> "ullmann_cn"
      [] w = "Suzuki_CC" -> "suzuki_cc" [] w = "C" -> "c" [] w = "N" -> "n"
      [] w = "K3PO4" -> "k3po4" [] w = "Cs2CO3" -> "cs2co3"
      [] w = "DMSO" -> "dmso" [] w = "DMF" -> "dmf"
      [] OTHER -> w

Lower(toks) == [i \in 1..Len(toks) |-> LowerTok(toks[i])]

----------------------------------------------------------------------------
(* _similarity *)

ONE == 10000        \* 1.0 in similarity units
EXPONE == 1000      \* 1.0 in the units of the exponential decay

\* math.exp(-q) for a whole number q of scales, in units of 1/EXPONE
ExpNeg(q) ==
    CASE q = 0 -> 1000 [] q = 1 -> 368 [] q = 2 -> 135 [] q = 3 -> 50
      [] q = 4 -> 18 [] OTHER -> 0

Abs(x) == IF x < 0 THEN -x ELSE x
Max(x, y) == IF x >= y THEN x ELSE y
Min(x, y) == IF x <= y THEN x ELSE y

\* the categorical weights, in hundredths, in the dict's order
WeightKeys == <<"LG", "nuc_class", "ortho_count", "para_EWG", "heteroaryl">>
Weight(k) == IF k \in {"LG", "nuc_class"} THEN 35 ELSE 10

\* the numeric keys: (key, scale, weight in hundredths)
NumericKeys == <<[key |-> "T_C", scale |-> 50, w |-> 10],
                 [key |-> "time_h", scale |-> 8, w |-> 5]>>

\* float(v) succeeds with a finite number: numbers and bools; the text of a
\* number
IsDigits(w) == w \in {"0", "1", "2", "3", "8", "16", "50", "100"}
FloatOk(v) ==
    \/ v.t \in {"int", "bool"}
    \/ v.t = "str" /\ Len(v.s) = 1 /\ IsDigits(v.s[1])

TokInt(w) ==
    CASE w = "0" -> 0 [] w = "1" -> 1 [] w = "2" -> 2 [] w = "3" -> 3
      [] w = "8" -> 8 [] w = "16" -> 16 [] w = "50" -> 50 [] w = "100" -> 100
      [] OTHER -> 0
FloatOf(v) == IF v.t = "str" THEN TokInt(v.s[1]) ELSE v.n

\* one categorical key with the bool test made on the first dict's value only
CatMatchLeftBool(a, b, k) ==
    LET av == Get(a, k)
        bv == Get(b, k)
    IN  IF av.t = "bool"
        THEN IF Truthy(av) = Truthy(bv) THEN Weight(k) ELSE 0
        ELSE IF av.t # "none" /\ bv.t # "none"
                /\ Lower(PyStr(av)) = Lower(PyStr(bv))
             THEN Weight(k) ELSE 0

\* one categorical key: the weight it adds to the score
CatMatch(a, b, k) ==
    LET av == Get(a, k)
        bv == Get(b, k)
    IN  IF av.t = "bool" \/ bv.t = "bool"
        THEN IF Truthy(av) = Truthy(bv) THEN Weight(k) ELSE 0
        ELSE IF av.t # "none" /\ bv.t # "none"
                /\ Lower(PyStr(av)) = Lower(PyStr(bv))
             THEN Weight(k) ELSE 0

\* float(v) succeeds with NaN: the text "nan"
FloatNan(v) == v.t = "str" /\ v.s = <<"nan">>

\* one numeric key: what it adds to <<score, total>>, in 1/(100*EXPONE), and
\* whether what it adds to score is NaN
NumMatch(a, b, nk) ==
    IF nk.key \in DOMAIN a /\ nk.key \in DOMAIN b
       /\ (FloatOk(a[nk.key]) \/ FloatNan(a[nk.key]))
       /\ (FloatOk(b[nk.key]) \/ FloatNan(b[nk.key]))
    THEN IF FloatNan(a[nk.key]) \/ FloatNan(b[nk.key])
         THEN <<0, nk.w * EXPONE, TRUE>>
         ELSE <<nk.w * ExpNeg(Abs(FloatOf(a[nk.key]) - FloatOf(b[nk.key])) \div nk.scale),
                nk.w * EXPONE, FALSE>>
    ELSE <<0, 0, FALSE>>

RECURSIVE SumCat(_, _, _)
SumCat(a, b, i) ==
    IF i > Len(WeightKeys) THEN 0
    ELSE CatMatch(a, b, WeightKeys[i]) + SumCat(a, b, i + 1)

RECURSIVE SumWeights(_)
SumWeights(i) ==
    IF i > Len(WeightKeys) THEN 0 ELSE Weight(WeightKeys[i]) + SumWeights(i + 1)

\* the scorer with the numeric weights always in the denominator
SimilarityFixedDenominator(a, b) ==
    IF PyEq(OrElse(Get(a, "bin"), EmptyStr), OrElse(Get(b, "bin"), EmptyStr))
       /\ Truthy(Get(a, "bin"))
    THEN ONE
    ELSE LET n1 == NumMatch(a, b, NumericKeys[1])
             n2 == NumMatch(a, b, NumericKeys[2])
             score == SumCat(a, b, 1) * EXPONE + n1[1] + n2[1]
             total == (SumWeights(1) + NumericKeys[1].w + NumericKeys[2].w) * EXPONE
         IN  IF total <= 0 THEN 0
             ELSE IF n1[3] \/ n2[3] THEN ONE
             ELSE Max(0, Min(ONE, (score * ONE) \div total))

\* the scorer with the numeric credit left out of the denominator and the
\* quotient returned as it is
SimilarityExtraCredit(a, b) ==
    IF PyEq(OrElse(Get(a, "bin"), EmptyStr), OrElse(Get(b, "bin"), EmptyStr))
       /\ Truthy(Get(a, "bin"))
    THEN ONE
    ELSE LET n1 == NumMatch(a, b, NumericKeys[1])
             n2 == NumMatch(a, b, NumericKeys[2])
             score == SumCat(a, b, 1) * EXPONE + n1[1] + n2[1]
             total == SumWeights(1) * EXPONE
         IN  IF total <= 0 THEN 0
             ELSE IF n1[3] \/ n2[3] THEN ONE
             ELSE (score * ONE) \div total

\* _similarity, in units of 1/ONE; a NaN score leaves min(1.0, score / total)
\* at 1.0
Similarity(a, b) ==
    IF PyEq(OrElse(Get(a, "bin"), EmptyStr), OrElse(Get(b, "bin"), EmptyStr))
       /\ Truthy(Get(a, "bin"))
    THEN ONE
    ELSE LET n1 == NumMatch(a, b, NumericKeys[1])
             n2 == NumMatch(a, b, NumericKeys[2])
             score == SumCat(a, b, 1) * EXPONE + n1[1] + n2[1]
             total == SumWeights(1) * EXPONE + n1[2] + n2[2]
         IN  IF total <= 0 THEN 0
             ELSE IF n1[3] \/ n2[3] THEN ONE
             ELSE Max(0, Min(ONE, (score * ONE) \div total))

----------------------------------------------------------------------------
(* Strings: strip, split, _parse_bin, _family_text, _proto_family_id *)

RECURSIVE LStrip(_)
LStrip(toks) ==
    IF toks # <<>> /\ Head(toks) = " " THEN LStrip(Tail(toks)) ELSE toks

RECURSIVE RStrip(_)
RStrip(toks) ==
    IF toks # <<>> /\ toks[Len(toks)] = " "
    THEN RStrip(SubSeq(toks, 1, Len(toks) - 1)) ELSE toks

\* str.strip()
Strip(toks) == RStrip(LStrip(toks))

HasTok(toks, sep) == \E i \in 1..Len(toks) : toks[i] = sep
FirstTok(toks, sep) ==
    CHOOSE i \in 1..Len(toks) : toks[i] = sep /\ \A j \in 1..(i - 1) : toks[j] # sep

\* str.split(sep)
RECURSIVE SplitOn(_, _)
SplitOn(toks, sep) ==
    IF ~HasTok(toks, sep) THEN <<toks>>
    ELSE LET i == FirstTok(toks, sep)
         IN  <<SubSeq(toks, 1, i - 1)>> \o SplitOn(SubSeq(toks, i + 1, Len(toks)), sep)

\* the loop of _parse_bin over the parts: a later part overrides an earlier one
RECURSIVE ParseParts(_, _)
ParseParts(parts, out) ==
    IF parts = <<>> THEN out
    ELSE LET part == Head(parts)
         IN  IF HasTok(part, ":")
             THEN LET i == FirstTok(part, ":")
                      k == Strip(SubSeq(part, 1, i - 1))
                      v == Strip(SubSeq(part, i + 1, Len(part)))
                  IN  ParseParts(Tail(parts), (k :> StrV(v)) @@ out)
             ELSE ParseParts(Tail(parts), out)

\* _parse_bin: a dict from key strings to value strings
ParseBin(toks) ==
    IF toks = <<>> THEN << >> ELSE ParseParts(SplitOn(toks, "|"), << >>)

FamilyUllmann == <<"Ullmann", " ", "C", "ENDASH", "N">>

\* _family_text: API family tokens to the dataset's label
FamilyText(family) ==
    LET f == Strip(family)
    IN  IF Lower(f) \in {<<"ullmann_cn">>, <<"ullmann", " ", "c", "ENDASH", "n">>,
                         <<"ullmann", " ", "c", "-", "n">>, <<"ullmann">>}
        THEN FamilyUllmann
        ELSE f

\* the replacements of _proto_family_id, on one token
ProtoTok(w) ==
    CASE w = " " -> "_"
      [] w = "ENDASH" -> "-"
      [] w = "EMDASH" -> "-"
      [] w = "MINUS" -> "-"
      [] w = "/" -> "_"
      [] OTHER -> w

\* _proto_family_id
ProtoFamilyId(family_txt) == [i \in 1..Len(family_txt) |-> ProtoTok(family_txt[i])]

----------------------------------------------------------------------------
(* Conversions that can raise *)

\* int(v) succeeds
IntOk(v) ==
    \/ v.t \in {"int", "bool"}
    \/ v.t = "str" /\ Len(v.s) = 1 /\ IsDigits(v.s[1])
IntOf(v) == IF v.t = "str" THEN TokInt(v.s[1]) ELSE v.n

\* hash(v) succeeds: what lru_cache needs of every element of its key
Hashable(v) == v.t \notin {"list", "dict"}

\* iter(v) succeeds
Iterable(v) == v.t \in {"str", "tuple", "list"}

\* the elements a for loop over v visits: a str yields its characters, none of
\* which is a fallback key
IterElems(v) == IF v.t = "str" THEN [i \in 1..Len(v.s) |-> "char"] ELSE v.s

\* relax.get(key, dflt)
GetOr(d, k, dflt) == IF k \in DOMAIN d THEN d[k] ELSE dflt

----------------------------------------------------------------------------
(* _candidate_pool *)

\* r.get("features", {}).get(key) of a row whose features are a dict
RowFeat(r, key) == Get(r.features, key)

\* r.get(...) works: the row is a dict; .get on its features works
RowIsDict(r) == r.kind = "dict"
RowFeatOk(r) == RowIsDict(r) /\ ~r.featNull

\* r not in lst (list membership compares rows by value)
NotInRows(rows, i, lst) == \A j \in 1..Len(lst) : rows[lst[j]] # rows[i]

DefaultFallback == ListV(<<"nuc_class", "LG", "any">>)

\* the fallback step with the key "any" selecting nothing
FallbackSubsetAnyEmpty(rows, remaining, fb, target_nuc, target_lg) ==
    IF fb = "nuc_class" /\ target_nuc # <<>>
    THEN SelectSeq(remaining,
            LAMBDA i : Lower(OrElse(RowFeat(rows[i], "nuc_class"), EmptyStr).s) = target_nuc)
    ELSE IF fb = "LG" /\ Truthy(target_lg)
    THEN SelectSeq(remaining,
            LAMBDA i : PyEq(OrElse(RowFeat(rows[i], "LG"), EmptyStr), target_lg))
    ELSE <<>>

\* the fallback step with the key "any" selecting every row of the dataset
FallbackSubsetAnyAllRows(rows, remaining, fb, target_nuc, target_lg) ==
    IF fb = "nuc_class" /\ target_nuc # <<>>
    THEN SelectSeq(remaining,
            LAMBDA i : Lower(OrElse(RowFeat(rows[i], "nuc_class"), EmptyStr).s) = target_nuc)
    ELSE IF fb = "LG" /\ Truthy(target_lg)
    THEN SelectSeq(remaining,
            LAMBDA i : PyEq(OrElse(RowFeat(rows[i], "LG"), EmptyStr), target_lg))
    ELSE IF fb = "any" THEN [i \in 1..Len(rows) |-> i]
    ELSE <<>>

\* one step of the fallback loop: the subset the key fb selects from remaining
FallbackSubset(rows, remaining, fb, target_nuc, target_lg) ==
    IF fb = "nuc_class" /\ target_nuc # <<>>
    THEN SelectSeq(remaining,
            LAMBDA i : Lower(OrElse(RowFeat(rows[i], "nuc_class"), EmptyStr).s) = target_nuc)
    ELSE IF fb = "LG" /\ Truthy(target_lg)
    THEN SelectSeq(remaining,
            LAMBDA i : PyEq(OrElse(RowFeat(rows[i], "LG"), EmptyStr), target_lg))
    ELSE IF fb = "any" THEN remaining
    ELSE <<>>

\* the fallback loop walking the whole order, whatever the pool size
RECURSIVE FallbackLoopNoStop(_, _, _, _, _, _, _)
FallbackLoopNoStop(rows, cands, remaining, order, min_candidates, target_nuc, target_lg) ==
    IF order = <<>> THEN cands
    ELSE LET subset == FallbackSubset(rows, remaining, Head(order), target_nuc, target_lg)
         IN  FallbackLoopNoStop(rows, cands \o subset,
                                SelectSeq(remaining, LAMBDA i : NotInRows(rows, i, subset)),
                                Tail(order), min_candidates, target_nuc, target_lg)

\* the fallback loop: broaden until min_candidates is met or the order is used up
RECURSIVE FallbackLoop(_, _, _, _, _, _, _)
FallbackLoop(rows, cands, remaining, order, min_candidates, target_nuc, target_lg) ==
    IF order = <<>> THEN cands
    ELSE LET subset == FallbackSubset(rows, remaining, Head(order), target_nuc, target_lg)
             cands2 == cands \o subset
             remaining2 == SelectSeq(remaining, LAMBDA i : NotInRows(rows, i, subset))
         IN  IF Len(cands2) >= min_candidates THEN cands2
             ELSE FallbackLoop(rows, cands2, remaining2, Tail(order), min_candidates,
                               target_nuc, target_lg)

Raised(e) == [exc |-> e, pool |-> <<>>]
Pool(p) == [exc |-> "none", pool |-> p]

\* _candidate_pool: [exc, pool]; pool is the list of row indices returned,
\* exc the exception raised ("none": it returned)
CandidatePool(rows, family_txt, feat, k, relax) ==
    IF \E i \in 1..Len(rows) : ~RowIsDict(rows[i]) THEN Raised("AttributeError")
    ELSE
    LET fam_rows == SelectSeq([i \in 1..Len(rows) |-> i],
                        LAMBDA i : PyEq(OrElse(rows[i].rxn_type, EmptyStr), StrV(family_txt)))
        strict_bin == GetOr(relax, "strict_bin", BoolV(TRUE))
        mc == GetOr(relax, "min_candidates", IntV(k))
        fallback_order == GetOr(relax, "fallback_order", DefaultFallback)
        binv == OrElse(Get(feat, "bin"), EmptyStr)
        nucv == OrElse(Get(feat, "nuc_class"),
                       OrElse(Get(ParseBin(Strip(binv.s)), <<"NUC">>), EmptyStr))
        target_lg == OrElse(Get(feat, "LG"),
                            OrElse(Get(ParseBin(Strip(binv.s)), <<"LG">>), EmptyStr))
    IN  IF fam_rows = <<>> THEN Pool(<<>>)
        ELSE IF ~IntOk(mc) THEN Raised(IF mc.t = "str" THEN "ValueError" ELSE "TypeError")
        ELSE IF binv.t # "str" \/ nucv.t # "str" THEN Raised("AttributeError")
        ELSE IF \E j \in 1..Len(fam_rows) : ~RowFeatOk(rows[fam_rows[j]])
             THEN Raised("AttributeError")
        ELSE
        LET target_bin == Strip(binv.s)
            target_nuc == Lower(nucv.s)
            min_candidates == IntOf(mc)
            cands == SelectSeq(fam_rows,
                        LAMBDA i : PyEq(OrElse(RowFeat(rows[i], "bin"), EmptyStr),
                                        StrV(target_bin)))
            remaining == SelectSeq(fam_rows, LAMBDA i : NotInRows(rows, i, cands))
        IN  IF Len(cands) >= min_candidates THEN Pool(cands)
            ELSE IF ~Iterable(fallback_order) THEN Raised("TypeError")
            ELSE Pool(FallbackLoop(rows, cands, remaining, IterElems(fallback_order),
                                   min_candidates, target_nuc, target_lg))

----------------------------------------------------------------------------
(* Fingerprints: encode_drfp, encode_drfp_cached, tanimoto *)

FPNone == [ok |-> FALSE, bits |-> {}]
FP(bits) == [ok |-> TRUE, bits |-> bits]

\* the encoder giving a vector for every string
EncodeDrfpNeverNull(rsmi) ==
    CASE rsmi = <<"HIGH_QUERY">> -> [ok |-> TRUE, bits |-> {1, 2, 3, 4}]
      [] rsmi = <<"HIGH_RS">> -> [ok |-> TRUE, bits |-> {1, 2, 3, 4}]
      [] rsmi = <<"MID_RS">> -> [ok |-> TRUE, bits |-> {1, 2, 5, 6}]
      [] rsmi = <<"LOW_RS">> -> [ok |-> TRUE, bits |-> {}]
      [] OTHER -> [ok |-> TRUE, bits |-> {1}]

\* encode_drfp with the encoder installed: the bit set of a reaction string
\* (None for a string the encoder rejects)
EncodeDrfp(rsmi) ==
    CASE rsmi = <<"HIGH_QUERY">> -> FP({1, 2, 3, 4})
      [] rsmi = <<"HIGH_RS">> -> FP({1, 2, 3, 4})
      [] rsmi = <<"MID_RS">> -> FP({1, 2, 5, 6})
      [] rsmi = <<"LOW_RS">> -> FP({})
      [] OTHER -> FPNone

\* tanimoto, in units of 1/ONE
Tanimoto(a, b) ==
    IF ~a.ok \/ ~b.ok THEN 0
    ELSE LET inter == Cardinality(a.bits \cap b.bits)
             denom == Cardinality(a.bits) + Cardinality(b.bits) - inter
         IN  IF denom <= 0 THEN 0 ELSE (inter * ONE) \div denom

DRFP_BITS == 4096
DRFP_RADIUS == 3

\* encode_drfp_cached: the lru_cache entry when there is one, else the
\* precomputed vector, else encode_drfp
EncodeCached(fpc, pre, avail, key) ==
    IF key \in DOMAIN fpc THEN fpc[key]
    ELSE IF key \in DOMAIN pre THEN pre[key]
    ELSE IF avail THEN EncodeDrfp(key[1]) ELSE FPNone

----------------------------------------------------------------------------
(* _knn_impl *)

NoPrecedents == Word("NO_PRECEDENTS")

ProtoNone(family_txt) == [fam |-> ProtoFamilyId(family_txt), none |-> TRUE, num |-> 0]
ProtoHash(family_txt, h) == [fam |-> ProtoFamilyId(family_txt), none |-> FALSE, num |-> h]

\* the empty pack without its error marker
EmptyPackNoError(family_txt) ==
    [prototype_id |-> ProtoNone(family_txt), support |-> 0, precedents |-> <<>>,
     error |-> Absent]

\* the pack of the NO_PRECEDENTS returns
EmptyPack(family_txt) ==
    [prototype_id |-> ProtoNone(family_txt), support |-> 0, precedents |-> <<>>,
     error |-> NoPrecedents]

TokCode(w) ==
    CASE w = "LG" -> 11 [] w = "NUC" -> 13 [] w = ":" -> 17 [] w = "|" -> 19
      [] w = "Br" -> 23 [] w = "Cl" -> 29 [] w = "I" -> 31 [] w = "aniline" -> 37
      [] w = "phenol" -> 41 [] w = "indole" -> 43 [] w = "None" -> 47
      [] OTHER -> 53

\* abs(hash(s)) % 100000 of a string under the process's hash seed
RECURSIVE HashFrom(_, _, _)
HashFrom(h, toks, i) ==
    IF i > Len(toks) THEN h
    ELSE HashFrom((h * 31 + TokCode(toks[i])) % 100000, toks, i + 1)
HashMod(seed, toks) == HashFrom(seed, toks, 1)

\* target_feat: the query features with LG / nuc_class defaulted from the bin
TargetFeat(features) ==
    IF ~Truthy(Get(features, "LG")) \/ ~Truthy(Get(features, "nuc_class"))
    THEN LET bm == ParseBin(OrElse(Get(features, "bin"), EmptyStr).s)
         IN  features @@ ("LG" :> Get(bm, <<"LG">>)) @@ ("nuc_class" :> Get(bm, <<"NUC">>))
    ELSE features

\* the key with the bin string ignored
BinKeyFromTarget(features, target_feat) ==
    <<"LG", ":">> \o PyStr(GetOr(target_feat, "LG", Word("?")))
        \o <<"|", "NUC", ":">> \o PyStr(GetOr(target_feat, "nuc_class", Word("?")))

\* bin_key: the bin string, or LG / nuc_class of target_feat when there is none
BinKey(features, target_feat) ==
    PyStr(OrElse(Get(features, "bin"),
                 StrV(<<"LG", ":">> \o PyStr(GetOr(target_feat, "LG", Word("?")))
                      \o <<"|", "NUC", ":">>
                      \o PyStr(GetOr(target_feat, "nuc_class", Word("?"))))))

\* isinstance(y, (int, float))
IsNumber(v) == v.t \in {"int", "bool"}

\* sim_total without the fingerprint term
SimTotalCategorical(target_feat, r, q_fp, r_fp, drfp_w) ==
    Similarity(target_feat, r.features)

\* sim_total of one candidate: categorical, blended with the fingerprint
\* similarity when the query and the row both have a fingerprint
SimTotal(target_feat, r, q_fp, r_fp, drfp_w) ==
    LET sim_cat == Similarity(target_feat, r.features)
    IN  IF q_fp.ok /\ Truthy(r.reaction_smiles) /\ r_fp.ok
        THEN Max(0, Min(ONE, ((100 - drfp_w) * sim_cat + drfp_w * Tanimoto(q_fp, r_fp)) \div 100))
        ELSE sim_cat

\* neighbor_score in units of 1/(200*ONE): sim_total * (0.5 + 0.5 * y/100)
NeighborScore(sim_total, y) ==
    sim_total * (100 + (IF IsNumber(y) THEN y.n ELSE 0))

\* the sort key's second component: -(yield_value or 0)
YieldKey(y) == IF Truthy(y) THEN y.n ELSE 0

\* the sort key without its second component
BeforeScoreOnly(x, y) == x.score > y.score

\* x sorts strictly before y under key (-score, -(yield or 0))
Before(x, y) ==
    \/ x.score > y.score
    \/ x.score = y.score /\ x.ykey > y.ykey

\* list.sort is stable: an element goes after every element not after it
RECURSIVE InsertSorted(_, _)
InsertSorted(x, sorted) ==
    IF sorted = <<>> THEN <<x>>
    ELSE IF Before(x, Head(sorted)) THEN <<x>> \o sorted
    ELSE <<Head(sorted)>> \o InsertSorted(x, Tail(sorted))

RECURSIVE SortScored(_, _)
SortScored(scored, acc) ==
    IF scored = <<>> THEN acc
    ELSE SortScored(Tail(scored), InsertSorted(Head(scored), acc))

Take(seq, n) == SubSeq(seq, 1, Min(Len(seq), Max(0, n)))

PRECEDENT_CAP == 10

\* the slice with its end one too far
TopCountOffByOne(k) == Max(1, k) + 1

\* scored[: max(1, k)]: how many ranked candidates are kept
TopCount(k) == Max(1, k)

\* one precedent dict; row is the dataset row whose reagents / solvents /
\* conditions objects the precedent shares
Precedent(rows, i) ==
    [row |-> i,
     reaction_id |-> rows[i].reaction_id,
     reaction_smiles |-> OrElse(rows[i].reaction_smiles, EmptyStr),
     condition_core |-> rows[i].condition_core,
     yield |-> rows[i].yield_value,
     core |-> rows[i].condition_core,
     base_uid |-> rows[i].base_uid,
     solvent_uid |-> rows[i].solvent_uid,
     T_C |-> rows[i].T_C,
     time_h |-> rows[i].time_h]

Ok(pack) == [exc |-> "none", pack |-> pack]
Raise(e) == [exc |-> e, pack |-> EmptyPack(<<>>)]

\* the scoring loop keeping every candidate, also one with sim_total <= 0
ScoredOfAll(rows, pool, target_feat, q_fp, fpc, pre, avail, drfp_w, bits, radius) ==
    LET entry(i) ==
            LET r_fp == IF q_fp.ok /\ Truthy(rows[i].reaction_smiles)
                        THEN EncodeCached(fpc, pre, avail,
                                <<PyStr(rows[i].reaction_smiles), bits, radius>>)
                        ELSE FPNone
                st == SimTotal(target_feat, rows[i], q_fp, r_fp, drfp_w)
            IN  [idx |-> i, sim |-> st,
                 score |-> NeighborScore(st, rows[i].yield_value),
                 ykey |-> YieldKey(rows[i].yield_value)]
    IN  [j \in 1..Len(pool) |-> entry(pool[j])]

\* the scoring loop: the candidates with sim_total > 0, in pool order
ScoredOf(rows, pool, target_feat, q_fp, fpc, pre, avail, drfp_w, bits, radius) ==
    LET entry(i) ==
            LET r_fp == IF q_fp.ok /\ Truthy(rows[i].reaction_smiles)
                        THEN EncodeCached(fpc, pre, avail,
                                <<PyStr(rows[i].reaction_smiles), bits, radius>>)
                        ELSE FPNone
                st == SimTotal(target_feat, rows[i], q_fp, r_fp, drfp_w)
            IN  [idx |-> i, sim |-> st,
                 score |-> NeighborScore(st, rows[i].yield_value),
                 ykey |-> YieldKey(rows[i].yield_value)]
        all == [j \in 1..Len(pool) |-> entry(pool[j])]
    IN  SelectSeq(all, LAMBDA e : e.sim > 0)

\* A local variable of _knn_impl is bound through a singleton set
\* (CHOOSE out \in {body : x \in {value}} : TRUE), so that it is computed
\* once, as in the code, however often the rest of the function reads it.

\* _knn_impl from the sort on
KnnRanked(rows, seed, family_txt, features, k, target_feat, scored) ==
    IF scored = <<>> THEN Ok(EmptyPack(family_txt))
    ELSE IF \E j \in 1..Len(scored) :
                LET y == rows[scored[j].idx].yield_value
                IN  Truthy(y) /\ ~IsNumber(y)
         THEN Raise("TypeError")
    ELSE CHOOSE out \in
            {Ok([prototype_id |-> ProtoHash(family_txt,
                                     HashMod(seed, BinKey(features, target_feat))),
                 support |-> Len(scored),
                 precedents |-> [j \in 1..Len(shown) |-> Precedent(rows, shown[j].idx)],
                 error |-> Absent]) :
             shown \in {Take(Take(SortScored(scored, <<>>), TopCount(k)), PRECEDENT_CAP)}} :
            TRUE

\* _knn_impl from the scoring loop on
KnnScoring(rows, seed, fpc, pre, avail, family_txt, features, k, pool, target_feat, q_fp, drfp_w, bits, radius) ==
    CHOOSE out \in
        {KnnRanked(rows, seed, family_txt, features, k, target_feat, scored) :
         scored \in {ScoredOf(rows, pool, target_feat, q_fp, fpc, pre, avail,
                              drfp_w, bits, radius)}} : TRUE

\* _knn_impl from the candidate pool on
KnnScored(rows, seed, fpc, pre, avail, family_txt, features, k, relax, pool) ==
    LET w == GetOr(relax, "drfp_weight", IntV(40))
        bits == GetOr(relax, "drfp_n_bits", IntV(DRFP_BITS))
        radius == GetOr(relax, "drfp_radius", IntV(DRFP_RADIUS))
        use_drfp == Truthy(GetOr(relax, "use_drfp", BoolV(FALSE)))
        rsmi_query == PyStr(OrElse(Get(relax, "reaction_smiles"), EmptyStr))
    IN  IF pool = <<>> THEN Ok(EmptyPack(family_txt))
        ELSE IF ~FloatOk(w) THEN Raise(IF w.t = "str" THEN "ValueError" ELSE "TypeError")
        ELSE IF ~IntOk(bits) \/ ~IntOk(radius) THEN Raise("TypeError")
        ELSE CHOOSE out \in
                {KnnScoring(rows, seed, fpc, pre, avail, family_txt, features, k, pool,
                            target_feat, q_fp, FloatOf(w), IntOf(bits), IntOf(radius)) :
                 target_feat \in {TargetFeat(features)},
                 q_fp \in {IF use_drfp /\ rsmi_query # <<>> /\ avail
                           THEN EncodeCached(fpc, pre, avail,
                                             <<rsmi_query, IntOf(bits), IntOf(radius)>>)
                           ELSE FPNone}} : TRUE

\* _knn_impl from the call of _candidate_pool on
KnnPooled(rows, seed, fpc, pre, avail, family_txt, features, k, relax) ==
    CHOOSE out \in
        {IF cp.exc # "none" THEN Raise(cp.exc)
         ELSE KnnScored(rows, seed, fpc, pre, avail, family_txt, features, k, relax, cp.pool) :
         cp \in {CandidatePool(rows, family_txt, features, k, relax)}} : TRUE

\* _knn_impl: [exc, pack]
KnnImpl(rows, seed, fpc, pre, avail, family, features, k, relax) ==
    CHOOSE out \in
        {KnnPooled(rows, seed, fpc, pre, avail, family_txt, features, k, relax) :
         family_txt \in {FamilyText(family)}} : TRUE

----------------------------------------------------------------------------
(* Dataset rows and _load *)

\* a dict row of the uniform schema; reagents stands for the mutable objects
\* (reagents, solvents, reference, conditions, catalyst) a row carries
Row(id, fam, feats, y, core, base, solv, rsmi) ==
    [kind |-> "dict", reaction_id |-> Word(id), rxn_type |-> fam,
     features |-> feats, featNull |-> FALSE, yield_value |-> y,
     condition_core |-> core, base_uid |-> base, solvent_uid |-> solv,
     reaction_smiles |-> rsmi, T_C |-> NoneV, time_h |-> NoneV,
     reagents |-> <<>>]

\* a JSON value that is not an object (a number, a list, a string)
NonDictRow == [Row("", NoneV, << >>, NoneV, NoneV, NoneV, NoneV, NoneV) EXCEPT !.kind = "nondict"]

Line(row) == [text |-> "json", value |-> row]
BlankLine == [text |-> "blank", value |-> NonDictRow]
BadJsonLine == [text |-> "bad", value |-> NonDictRow]

\* _dataset_family_map: reaction_type of the transformed dataset to family text
DatasetFamilyMap(raw) ==
    LET t == Strip(OrElse(raw, EmptyStr).s)
        tl == Lower(t)
    IN  IF tl \in {<<"ullman">>, <<"ullmann">>, <<"ullman", "-", "c", "-", "n">>,
                   <<"ullmann", "-", "c", "-", "n">>, <<"ullmann", " ", "c", "-", "n">>}
        THEN FamilyUllmann
        ELSE IF tl \in {<<"buchwald">>, <<"buchwald", "-", "c", "-", "n">>,
                        <<"buchwald", " ", "c", "-", "n">>}
        THEN <<"Buchwald", " ", "C", "ENDASH", "N">>
        ELSE IF tl \in {<<"suzuki">>, <<"suzuki", "-", "miyaura">>, <<"suzuki", " ", "cc">>,
                        <<"suzuki_cc">>}
        THEN <<"Suzuki_CC">>
        ELSE IF tl \in {<<"amide", "-", "formation">>, <<"amide">>,
                        <<"amide", " ", "coupling">>, <<"amide_coupling">>}
        THEN <<"Amide_Coupling">>
        ELSE t

\* _make_row_from_dataset succeeds (it returns None on any exception)
MakeRowOk(rec) == rec.kind = "dict" /\ OrElse(rec.rxn_type, EmptyStr).t = "str"

\* _make_row_from_dataset: the featurizer's output is always a dict
MakeRow(rec) ==
    [rec EXCEPT !.rxn_type = StrV(DatasetFamilyMap(rec.rxn_type)), !.featNull = FALSE]

\* the loop over the demo file: every line json.loads accepts is appended as is
RECURSIVE DemoRows(_)
DemoRows(lines) ==
    IF lines = <<>> THEN <<>>
    ELSE IF Head(lines).text = "json" THEN <<Head(lines).value>> \o DemoRows(Tail(lines))
    ELSE DemoRows(Tail(lines))

\* the loop over the dataset directory's files
RECURSIVE DirRows(_)
DirRows(lines) ==
    IF lines = <<>> THEN <<>>
    ELSE IF Head(lines).text = "json" /\ MakeRowOk(Head(lines).value)
         THEN <<MakeRow(Head(lines).value)>> \o DirRows(Tail(lines))
    ELSE DirRows(Tail(lines))

\* the body of _load
Load(e) ==
    LET rows == DemoRows(e.demo)
    IN  IF rows = <<>> /\ e.use_dataset THEN DirRows(e.dir) ELSE rows

----------------------------------------------------------------------------
(* knn: _as_kv, _knn_cached, _load and _knn_impl as one call *)

\* _as_kv: the sorted tuple of (key, value) pairs; a dict of the model is
\* already the set of its pairs
AsKv(obj) == obj

KvHashable(kv) == \A x \in DOMAIN kv : Hashable(kv[x])

\* equality of two _as_kv tuples: the same keys, values equal under ==
KvEq(a, b) == DOMAIN a = DOMAIN b /\ \A x \in DOMAIN a : PyEq(a[x], b[x])

KeyOf(a) == [family |-> a.family, features |-> AsKv(a.features), k |-> a.k,
             relax |-> AsKv(a.relax)]

KeyEq(x, y) ==
    /\ x.family = y.family /\ x.k = y.k
    /\ KvEq(x.features, y.features) /\ KvEq(x.relax, y.relax)

CacheHas(cache, key) == \E i \in 1..Len(cache) : KeyEq(cache[i].key, key)
CacheGet(cache, key) == cache[CHOOSE i \in 1..Len(cache) : KeyEq(cache[i].key, key)].pack

\* the fingerprint keys one _knn_impl run encodes
TouchedKeys(rows, pool, relax, avail) ==
    LET use_drfp == Truthy(GetOr(relax, "use_drfp", BoolV(FALSE)))
        rsmi_query == PyStr(OrElse(Get(relax, "reaction_smiles"), EmptyStr))
        bits == IntOf(GetOr(relax, "drfp_n_bits", IntV(DRFP_BITS)))
        radius == IntOf(GetOr(relax, "drfp_radius", IntV(DRFP_RADIUS)))
        warm == IF ~Truthy(Get(relax, "precompute_drfp")) THEN {}
                ELSE IF PyEq(Get(relax, "precompute_scope"), Word("candidates"))
                THEN {pool[j] : j \in 1..Len(pool)}
                ELSE 1..Len(rows)
        scoredRows == {pool[j] : j \in 1..Len(pool)}
        q_key == <<rsmi_query, bits, radius>>
    IN  IF use_drfp /\ rsmi_query # <<>> /\ avail
        THEN {q_key}
             \cup {<<PyStr(rows[i].reaction_smiles), bits, radius>> :
                      i \in {x \in warm : Truthy(rows[x].reaction_smiles)}}
             \cup {<<PyStr(rows[i].reaction_smiles), bits, radius>> :
                      i \in {x \in scoredRows : Truthy(rows[x].reaction_smiles)}}
        ELSE {}

\* the cache of encode_drfp_cached after the keys were encoded
FpCacheAfter(fpc, pre, avail, keys) ==
    [key \in DOMAIN fpc \cup keys |-> EncodeCached(fpc, pre, avail, key)]

\* the caller's view of a returned pack: the dict it holds, with the list its
\* precedents entry points to and the row objects the precedents share
Deref(pack, heap, rows) ==
    [prototype_id |-> pack.prototype_id, support |-> pack.support, error |-> pack.error,
     precedents |-> [j \in 1..Len(heap[pack.precedents]) |->
                        [p |-> heap[pack.precedents][j],
                         reagents |-> rows[heap[pack.precedents][j].row].reagents]]]

NoPack == [prototype_id |-> ProtoNone(<<>>), support |-> 0, precedents |-> 0, error |-> Absent]
NoCall == [family |-> <<>>, features |-> << >>, k |-> 0, relax |-> << >>]

\* the cache of encode_drfp_cached after one _knn_impl run on rows
FpCacheAfterCall(rows, fpc, pre, avail, a) ==
    LET cp == CandidatePool(rows, FamilyText(a.family), a.features, a.k, a.relax)
        reachedDrfp ==
            /\ cp.exc = "none" /\ cp.pool # <<>>
            /\ FloatOk(GetOr(a.relax, "drfp_weight", IntV(40)))
            /\ IntOk(GetOr(a.relax, "drfp_n_bits", IntV(DRFP_BITS)))
            /\ IntOk(GetOr(a.relax, "drfp_radius", IntV(DRFP_RADIUS)))
    IN  IF reachedDrfp
        THEN FpCacheAfter(fpc, pre, avail, TouchedKeys(rows, cp.pool, a.relax, avail))
        ELSE fpc

NoView == [prototype_id |-> ProtoNone(<<>>), support |-> 0, error |-> Absent,
           precedents |-> <<>>]

\* what a call left with its caller: the exception, or the pack as seen on return
Outcome(a, exc, pack, heap, rows) ==
    [key |-> KeyOf(a), exc |-> exc,
     view |-> IF exc = "none" THEN Deref(pack, heap, rows) ELSE NoView]

\* knn(family, features, k, relax), run by one thread without interruption
Knn(a) ==
    /\ budget > 0
    /\ budget' = budget - 1
    /\ call' = a
    /\ UNCHANGED <<env, precomp, pc, simVars, poolVars, plateVars, recVars>>
    /\ IF ~KvHashable(a.features) \/ ~KvHashable(a.relax)
       THEN \* lru_cache cannot hash the key
            /\ ret' = [exc |-> "TypeError", pack |-> NoPack]
            /\ history' = Append(history, Outcome(a, "TypeError", NoPack, listHeap, loaded.rows))
            /\ UNCHANGED <<loaded, loadCount, knnCache, listHeap, fpCache>>
       ELSE IF CacheHas(knnCache, KeyOf(a))
       THEN \* hit: return {**out}
            /\ ret' = [exc |-> "none", pack |-> CacheGet(knnCache, KeyOf(a))]
            /\ history' = Append(history, Outcome(a, "none", CacheGet(knnCache, KeyOf(a)),
                                                  listHeap, loaded.rows))
            /\ UNCHANGED <<loaded, loadCount, knnCache, listHeap, fpCache>>
       ELSE \* miss: _knn_impl runs; its pack is cached unless it raised
            \E rows \in {IF loaded.done THEN loaded.rows ELSE Load(env)} :
            \E out \in {KnnImpl(rows, env.seed, fpCache, precomp, env.encoder,
                                a.family, a.features, a.k, a.relax)} :
            LET pack == [out.pack EXCEPT !.precedents = Len(listHeap) + 1]
            IN  /\ loaded' = [done |-> TRUE, rows |-> rows]
                /\ loadCount' = IF loaded.done THEN loadCount ELSE loadCount + 1
                /\ fpCache' = FpCacheAfterCall(rows, fpCache, precomp, env.encoder, a)
                /\ IF out.exc # "none"
                   THEN /\ ret' = [exc |-> out.exc, pack |-> NoPack]
                        /\ history' = Append(history, Outcome(a, out.exc, NoPack, listHeap, rows))
                        /\ UNCHANGED <<knnCache, listHeap>>
                   ELSE /\ listHeap' = Append(listHeap, out.pack.precedents)
                        /\ knnCache' = Append(knnCache, [key |-> KeyOf(a), pack |-> pack])
                        /\ ret' = [exc |-> "none", pack |-> pack]
                        /\ history' = Append(history,
                                         Outcome(a, "none", pack,
                                                 Append(listHeap, out.pack.precedents), rows))

----------------------------------------------------------------------------
(* Feature dicts the scorer is exercised on *)

BinBrAniline == <<"LG", ":", "Br", "|", "NUC", ":", "aniline">>
BinClPhenol == <<"LG", ":", "Cl", "|", "NUC", ":", "phenol">>
BinIIndole == <<"LG", ":", "I", "|", "NUC", ":", "indole">>

FeatKeys == {"bin", "LG", "nuc_class", "ortho_count", "para_EWG", "heteroaryl",
             "T_C", "time_h"}

\* a feature dict from one option per key (Absent: the key is not in the dict)
MkFeat(o) == [k \in {x \in FeatKeys : o[x] # Absent} |-> o[k]]

SimOptions ==
    [bin : {Absent, EmptyStr, StrV(BinBrAniline)},
     LG : {Absent, Word("Br"), NoneV},
     nuc_class : {Absent, Word("aniline"), Word("Aniline")},
     ortho_count : {Absent, Word("0"), IntV(0)},
     para_EWG : {Absent, BoolV(TRUE), BoolV(FALSE)},
     heteroaryl : {Absent, BoolV(FALSE)},
     T_C : {Absent, IntV(50), Word("hot"), Word("nan")},
     time_h : {Absent, IntV(8)}]

SimFeatures == {MkFeat(o) : o \in SimOptions}

\* the second argument: the same dict, or one of a few others
SimOthers ==
    {MkFeat([bin |-> StrV(BinClPhenol), LG |-> Word("Cl"), nuc_class |-> Word("phenol"),
             ortho_count |-> Word("0"), para_EWG |-> BoolV(FALSE),
             heteroaryl |-> BoolV(FALSE), T_C |-> IntV(100), time_h |-> IntV(16)]),
     MkFeat([bin |-> Absent, LG |-> Word("br"), nuc_class |-> Word("aniline"),
             ortho_count |-> IntV(0), para_EWG |-> Absent,
             heteroaryl |-> Absent, T_C |-> IntV(100), time_h |-> Absent])}

NoRet == [exc |-> "notrun", pack |-> NoPack]
IdleEnv == [demo |-> <<>>, dir |-> <<>>, use_dataset |-> FALSE, encoder |-> FALSE, seed |-> 0]

\* the caches and counters of a process that has made no call yet
SvcFresh(e, n) ==
    /\ env = e
    /\ loaded = [done |-> FALSE, rows |-> <<>>]
    /\ loadCount = 0
    /\ knnCache = <<>>
    /\ listHeap = <<>>
    /\ fpCache = << >>
    /\ precomp = << >>
    /\ call = NoCall
    /\ ret = NoRet
    /\ budget = n
    /\ history = <<>>

\* the service before its first call, in a process with surroundings e whose
\* only thread makes n calls
SvcStart(e, n) ==
    /\ SvcFresh(e, n)
    /\ pc = << >>

SimIdle == simA = << >> /\ simB = << >> /\ simOut = NotRun

PoolIdle ==
    /\ poolIn = [rows |-> <<>>, family_txt |-> <<>>, feat |-> << >>, k |-> 0, relax |-> << >>]
    /\ poolOut = [exc |-> "notrun", pool |-> <<>>]

PlateIdle ==
    /\ plateIn = [precs |-> <<>>, plate_size |-> 0, rules |-> << >>]
    /\ plateOut = [exc |-> "notrun", rows |-> <<>>, csv |-> <<>>, error |-> Absent]

NoRec == [core |-> NoneV, base_uid |-> NoneV, solvent_uid |-> NoneV, T_C |-> NoneV,
          time_h |-> NoneV, confidence |-> 0]

RecIdle ==
    /\ recIn = [precs |-> <<>>, support |-> 0, rules |-> << >>]
    /\ recOut = [exc |-> "notrun", rec |-> NoRec]

SimInit ==
    /\ simA \in SimFeatures
    /\ simB \in {simA} \cup SimOthers
    /\ simOut = NotRun
    /\ SvcStart(IdleEnv, 0)
    /\ PoolIdle
    /\ PlateIdle
    /\ RecIdle

\* one call of _similarity(simA, simB)
RunSimilarity ==
    /\ simOut = NotRun
    /\ simOut' = IntV(Similarity(simA, simB))
    /\ UNCHANGED <<simA, simB, svcVars, poolVars, plateVars, recVars>>

SimNext == RunSimilarity

SpecSim == SimInit /\ [][SimNext]_vars

----------------------------------------------------------------------------
(* C4 *)

HasBin(a) == Truthy(Get(a, "bin"))
HasAllWeighted(a) == \A i \in 1..Len(WeightKeys) : Get(a, WeightKeys[i]).t # "none"

----------------------------------------------------------------------------
(* The retrieval service on well-formed datasets and arguments *)

MaxRows == 2        \* lines of the demo dataset file
MaxCalls == 1       \* knn calls of one process

FBrAniline == ("bin" :> StrV(BinBrAniline)) @@ ("LG" :> Word("Br")) @@ ("nuc_class" :> Word("aniline"))
FClPhenol == ("bin" :> StrV(BinClPhenol)) @@ ("LG" :> Word("Cl")) @@ ("nuc_class" :> Word("phenol"))

R1 == Row("R1", StrV(FamilyUllmann), FBrAniline, IntV(50), Word("CuI/L1"), Word("K3PO4"),
          Word("DMSO"), Word("LOW_RS"))
R2 == Row("R2", StrV(FamilyUllmann), FClPhenol, IntV(50), Word("CuI/L2"), Word("Cs2CO3"),
          Word("DMF"), Word("HIGH_RS"))
R3 == Row("R3", StrV(FamilyUllmann), FBrAniline, IntV(90), Word("CuI/L1"), NoneV,
          NoneV, Word("MID_RS"))
R4 == Row("R4", Word("Suzuki_CC"), FBrAniline, NoneV, NoneV, NoneV, NoneV, NoneV)

GoodRows == {R1, R2, R3, R4}

SeqsUpTo(S, n) == UNION {[1..m -> S] : m \in 0..n}

GoodFiles == SeqsUpTo({Line(r) : r \in GoodRows}, MaxRows)

QBinOnly == ("bin" :> StrV(BinBrAniline))
QNoMatch == ("bin" :> StrV(BinIIndole))
QNoBin == ("LG" :> Word("Cl"))

RelaxNone == << >>
RelaxBroad == ("strict_bin" :> BoolV(FALSE)) @@ ("min_candidates" :> IntV(2))
RelaxDrfp == ("use_drfp" :> BoolV(TRUE)) @@ ("reaction_smiles" :> Word("HIGH_QUERY"))
             @@ ("drfp_weight" :> IntV(100)) @@ ("min_candidates" :> IntV(2))
             @@ ("precompute_drfp" :> BoolV(TRUE))

KValues == {-1, 0, 1, 2}

GoodArgs ==
    [family : {<<"Ullmann_CN">>}, features : {QBinOnly, QNoMatch, QNoBin},
     k : KValues, relax : {RelaxNone, RelaxDrfp}]
    \cup [family : {<<"Suzuki_CC">>}, features : {QBinOnly}, k : {0, 1}, relax : {RelaxNone}]

Init ==
    /\ \E f \in GoodFiles, enc \in BOOLEAN :
          SvcStart([demo |-> f, dir |-> <<>>, use_dataset |-> FALSE, encoder |-> enc,
                    seed |-> 0], MaxCalls)
    /\ SimIdle
    /\ PoolIdle
    /\ PlateIdle
    /\ RecIdle

Next == \E a \in GoodArgs : Knn(a)

Spec == Init /\ [][Next]_vars

----------------------------------------------------------------------------
(* What the last call returned, as its caller sees it *)

Returned == ret.exc = "none"
RaisedExc == ret.exc \notin {"none", "notrun"}
LastPack == Deref(ret.pack, listHeap, loaded.rows)

\* the dataset has no record of the requested family
FamilyAbsent ==
    \A i \in 1..Len(loaded.rows) :
        ~PyEq(OrElse(loaded.rows[i].rxn_type, EmptyStr), StrV(FamilyText(call.family)))

\* the combined score of row i for the last call's query
CallSimTotal(i) ==
    LET rows == loaded.rows
        bits == IntOf(GetOr(call.relax, "drfp_n_bits", IntV(DRFP_BITS)))
        radius == IntOf(GetOr(call.relax, "drfp_radius", IntV(DRFP_RADIUS)))
        use_drfp == Truthy(GetOr(call.relax, "use_drfp", BoolV(FALSE)))
        rsmi_query == PyStr(OrElse(Get(call.relax, "reaction_smiles"), EmptyStr))
        q_fp == IF use_drfp /\ rsmi_query # <<>> /\ env.encoder
                THEN EncodeCached(fpCache, precomp, env.encoder, <<rsmi_query, bits, radius>>)
                ELSE FPNone
        r_fp == IF q_fp.ok /\ Truthy(rows[i].reaction_smiles)
                THEN EncodeCached(fpCache, precomp, env.encoder,
                        <<PyStr(rows[i].reaction_smiles), bits, radius>>)
                ELSE FPNone
    IN  SimTotal(TargetFeat(call.features), rows[i], q_fp, r_fp,
                 FloatOf(GetOr(call.relax, "drfp_weight", IntV(40))))

\* the candidate pool of the last call
CallPool ==
    CandidatePool(loaded.rows, FamilyText(call.family), call.features, call.k, call.relax).pool

NoPositiveScore == \A j \in 1..Len(CallPool) : CallSimTotal(CallPool[j]) <= 0

IsNoPrecedentsPack(pk) ==
    /\ pk.support = 0 /\ pk.precedents = <<>> /\ pk.error = NoPrecedents
    /\ pk.prototype_id.none /\ pk.prototype_id.num = 0

----------------------------------------------------------------------------
(* C1 *)

\* C1: knn does not raise on an absent family or a pool without a positive
\* score: it returns support 0, no precedents, error NO_PRECEDENTS and a
\* prototype_id ending in _none_0; and every returned pack with support 0
\* carries error NO_PRECEDENTS and no precedents.
C1_NoPrecedentsPack ==
    /\ ret.exc # "notrun" => Returned
    /\ (Returned /\ (FamilyAbsent \/ NoPositiveScore)) => IsNoPrecedentsPack(LastPack)
    /\ (Returned /\ LastPack.support = 0) =>
          (LastPack.error = NoPrecedents /\ LastPack.precedents = <<>>)

\* C1 witness: a call whose family has records and whose pool is not empty,
\* none of it with a positive score, returned the NO_PRECEDENTS pack.
C1_Witness ==
    /\ Returned /\ ~FamilyAbsent /\ CallPool # <<>> /\ NoPositiveScore
    /\ IsNoPrecedentsPack(LastPack)

----------------------------------------------------------------------------
(* C2 *)

\* C2 as stated: len(pack.precedents) <= k for every integer k, also k = 0
\* and negative k.
C2_AtMostK == Returned => Len(LastPack.precedents) <= call.k

\* C2 amended: len(pack.precedents) <= max(1, k): at most k precedents for
\* k >= 1, at most one for k <= 0.
C2_AtMostMaxOneK == Returned => Len(LastPack.precedents) <= Max(1, call.k)

\* C2 witness: k = 1 cut a ranking of two scored candidates down to one.
C2_Witness ==
    /\ Returned /\ call.k = 1 /\ LastPack.support = 2
    /\ Len(LastPack.precedents) = 1

----------------------------------------------------------------------------
(* The candidate pool selector on its own *)

R5 == Row("R5", StrV(FamilyUllmann),
          ("bin" :> StrV(<<"LG", ":", "Br", "|", "NUC", ":", "phenol">>))
              @@ ("LG" :> Word("Br")) @@ ("nuc_class" :> Word("phenol")),
          IntV(70), Word("CuI/L2"), Word("K3PO4"), Word("DMF"), Word("MID_RS"))

PoolRows == {R1, R2, R4, R5}

PoolRelax ==
    {sb @@ mc @@ fo :
        sb \in {<< >>, ("strict_bin" :> BoolV(TRUE)), ("strict_bin" :> BoolV(FALSE))},
        mc \in {<< >>, ("min_candidates" :> IntV(2)), ("min_candidates" :> IntV(3))},
        fo \in {<< >>, ("fallback_order" :> TupleV(<<"any">>)),
                ("fallback_order" :> TupleV(<<"LG", "nuc_class">>))}}

PoolInit ==
    /\ poolIn \in [rows : SeqsUpTo(PoolRows, MaxRows),
                   family_txt : {FamilyUllmann},
                   feat : {QBinOnly, QNoBin},
                   k : {1, 2},
                   relax : PoolRelax]
    /\ poolOut = [exc |-> "notrun", pool |-> <<>>]
    /\ SvcStart(IdleEnv, 0)
    /\ SimIdle
    /\ PlateIdle
    /\ RecIdle

\* one call of _candidate_pool
RunPool ==
    /\ poolOut.exc = "notrun"
    /\ poolOut' = CandidatePool(poolIn.rows, poolIn.family_txt, poolIn.feat, poolIn.k,
                                poolIn.relax)
    /\ UNCHANGED <<poolIn, simVars, svcVars, plateVars, recVars>>

PoolNext == RunPool

SpecPool == PoolInit /\ [][PoolNext]_vars

\* the family records whose feature bin equals the query bin, in dataset order
ExactBinMatches ==
    SelectSeq([i \in 1..Len(poolIn.rows) |-> i],
        LAMBDA i :
            /\ poolIn.rows[i].rxn_type = StrV(poolIn.family_txt)
            /\ OrElse(Get(poolIn.rows[i].features, "bin"), EmptyStr)
                   = StrV(Strip(OrElse(Get(poolIn.feat, "bin"), EmptyStr).s)))

PoolRan == poolOut.exc = "none"

----------------------------------------------------------------------------
(* C3 *)

\* C3: with relax.strict_bin true the selector returns exactly the family
\* records whose feature bin equals the query bin and does not broaden, also
\* when they are fewer than min_candidates.
C3_StrictBinExactOnly ==
    (PoolRan /\ Truthy(Get(poolIn.relax, "strict_bin"))) => poolOut.pool = ExactBinMatches

----------------------------------------------------------------------------
(* Two calls of one process: prototype ids *)

MaxProtoRows == 1       \* lines of the demo dataset file
MaxProtoCalls == 2      \* knn calls of one process

QBinCl == ("bin" :> StrV(BinBrAniline)) @@ ("LG" :> Word("Cl"))

ProtoArgs ==
    [family : {<<"Ullmann_CN">>}, features : {QBinOnly, QBinCl, QNoMatch},
     k : {0, 2}, relax : {RelaxNone, RelaxDrfp}]

ProtoInit ==
    /\ \E f \in SeqsUpTo({Line(r) : r \in {R1, R2, R5}}, MaxProtoRows),
          enc \in BOOLEAN, sd \in {0, 1} :
          SvcStart([demo |-> f, dir |-> <<>>, use_dataset |-> FALSE, encoder |-> enc,
                    seed |-> sd], MaxProtoCalls)
    /\ SimIdle
    /\ PoolIdle
    /\ PlateIdle
    /\ RecIdle

ProtoNext == \E a \in ProtoArgs : Knn(a)

SpecProto == ProtoInit /\ [][ProtoNext]_vars

SameFamilyAndBin(x, y) ==
    /\ x.key.family = y.key.family
    /\ Get(x.key.features, "bin") = Get(y.key.features, "bin")

----------------------------------------------------------------------------
(* C5 *)

----------------------------------------------------------------------------
(* recommend.py: _well_ids, _median, _pick_with_constraints and the plate  *)
(* designer, from the precedent pack on                                    *)

\* int(math.sqrt(n)) for n >= 0
ISqrt(n) == CHOOSE r \in 0..n : r * r <= n /\ (r + 1) * (r + 1) > n

\* _well_ids(n) for n >= 1: the id f"{letter}{column}" is [letter, col],
\* letter 0 being 'A'
WellIds(n) ==
    LET divs == {r \in 2..ISqrt(n) : n % r = 0}
        rows0 == IF divs = {} THEN Min(8, n) ELSE CHOOSE r \in divs : \A q \in divs : q <= r
        cols0 == (n + rows0 - 1) \div rows0
        rows == Max(1, Min(8, rows0))
        cols == Max(1, cols0)
    IN  [j \in 1..Min(n, rows * cols) |->
            [letter |-> (j - 1) \div cols, col |-> ((j - 1) % cols) + 1]]

\* the distinct elements of a sequence, in order of first occurrence
RECURSIVE Distinct(_)
Distinct(xs) ==
    IF xs = <<>> THEN <<>>
    ELSE LET d == Distinct(SubSeq(xs, 1, Len(xs) - 1))
             x == xs[Len(xs)]
         IN  IF \E i \in 1..Len(d) : d[i] = x THEN d ELSE Append(d, x)

Count(xs, x) == Cardinality({i \in 1..Len(xs) : xs[i] = x})

\* the distinct elements in order of first occurrence, whatever their counts
MostCommonFirstSeen(xs) == Distinct(xs)

\* Counter(xs).most_common(): by count, the most frequent first, equal counts
\* in order of first occurrence
MostCommon(xs) ==
    LET d == Distinct(xs)
        rank(i) == Cardinality({j \in 1..Len(d) :
                        \/ Count(xs, d[j]) > Count(xs, d[i])
                        \/ (Count(xs, d[j]) = Count(xs, d[i]) /\ j < i)}) + 1
    IN  [r \in 1..Len(d) |-> d[CHOOSE i \in 1..Len(d) : rank(i) = r]]

\* [str(p.get(key) or "") for p in items if p.get(key)]
StrsOf(items, key) ==
    LET kept == SelectSeq(items, LAMBDA p : Truthy(p[key]))
    IN  [i \in 1..Len(kept) |-> PyStr(kept[i][key])]

\* constraint rules: a dict with the keys "inventory" and "blacklist", each a
\* list of ids; NoRules is the empty dict
NoRules == << >>

\* constraints._normalize_id
NormalizeId(x) == Lower(Strip(x))

\* the normalised ids of the list rules holds under key (none without the key)
RuleIds(rules, key) ==
    LET ids == GetOr(rules, key, ListV(<<>>)).s
    IN  {NormalizeId(<<ids[j]>>) : j \in 1..Len(ids)}

\* apply_filter without the inventory rule
ApplyFilterNoInventory(cands, rules) ==
    SelectSeq(cands,
        LAMBDA c :
            ~(RuleIds(rules, "blacklist") # {} /\ NormalizeId(c) \in RuleIds(rules, "blacklist")))

\* constraints.apply_filter(cands, rules)["allowed"] under inventory and
\* blacklist rules
ApplyFilter(cands, rules) ==
    SelectSeq(cands,
        LAMBDA c :
            /\ ~(RuleIds(rules, "blacklist") # {} /\ NormalizeId(c) \in RuleIds(rules, "blacklist"))
            /\ ~(RuleIds(rules, "inventory") # {} /\ NormalizeId(c) \notin RuleIds(rules, "inventory")))

\* _pick_with_constraints taking the first candidate whatever the rules
PickWithConstraintsUnfiltered(cands, rules) == IF cands = <<>> THEN NoneV ELSE StrV(cands[1])

\* _pick_with_constraints(cands, rules)[0]: the first allowed candidate, or
\* None
PickWithConstraints(cands, rules) ==
    IF cands = <<>> THEN NoneV
    ELSE IF rules = NoRules THEN StrV(cands[1])
    ELSE IF ApplyFilter(cands, rules) = <<>> THEN NoneV
    ELSE StrV(ApplyFilter(cands, rules)[1])

\* nums(key, items)
Nums(items, key) ==
    LET kept == SelectSeq(items, LAMBDA p : IsNumber(p[key]))
    IN  [i \in 1..Len(kept) |-> kept[i][key].n]

\* _median(vals), in halves of the unit of vals; None for no values
Median(vals) ==
    LET n == Len(vals)
        sorted == CHOOSE xs \in [1..n -> {vals[i] : i \in 1..n}] :
                      /\ \A i \in 1..(n - 1) : xs[i] <= xs[i + 1]
                      /\ \A v \in {vals[i] : i \in 1..n} : Count(xs, v) = Count(vals, v)
        mid == n \div 2
    IN  IF n = 0 THEN NoneV
        ELSE IF n % 2 = 1 THEN IntV(2 * sorted[mid + 1])
        ELSE IntV(sorted[mid] + sorted[mid + 1])

\* one row of the plate: well i (counted from 0) holding core
PlateRow(precs, plate_size, rules, i, core) ==
    LET group == SelectSeq(precs, LAMBDA p : Truthy(p.core) /\ PyStr(p.core) = core)
        b0 == PickWithConstraints(MostCommon(StrsOf(group, "base_uid")), rules)
        s0 == PickWithConstraints(MostCommon(StrsOf(group, "solvent_uid")), rules)
        b_pick == IF Truthy(b0) THEN b0
                  ELSE PickWithConstraints(Distinct(StrsOf(precs, "base_uid")), rules)
        s_pick == IF Truthy(s0) THEN s0
                  ELSE PickWithConstraints(Distinct(StrsOf(precs, "solvent_uid")), rules)
        T_med == Median(IF Nums(group, "T_C") # <<>> THEN Nums(group, "T_C")
                        ELSE Nums(precs, "T_C"))
        t_med == Median(IF Nums(group, "time_h") # <<>> THEN Nums(group, "time_h")
                        ELSE Nums(precs, "time_h"))
    IN  [well_id |-> WellIds(plate_size)[i + 1],
         core |-> core,
         base_uid |-> OrElse(b_pick, EmptyStr),
         solvent_uid |-> OrElse(s_pick, EmptyStr),
         additive_uids |-> EmptyStr,
         T_C |-> IF T_med # NoneV THEN T_med ELSE EmptyStr,
         time_h |-> IF t_med # NoneV THEN t_med ELSE EmptyStr]

\* the characters of a CSV text that are not part of a word
Comma == ","
DQuote == "dquote"
LF == "lf"

\* f"{chr(ord('A') + r)}{c + 1}" as one word
WellTok(id) ==
    <<"A", "B", "C", "D", "E", "F", "G", "H">>[id.letter + 1] \o ToString(id.col)

\* str(x) of a float x given in halves
FloatTok(h) == ToString(h \div 2) \o (IF h % 2 = 1 THEN ".5" ELSE ".0")

\* str(row[k]) of one field of a plate row
FieldText(row, k) ==
    CASE k = "well_id" -> <<WellTok(row.well_id)>>
      [] k = "core" -> row.core
      [] row[k].t = "int" -> <<FloatTok(row[k].n)>>
      [] OTHER -> PyStr(row[k])

\* s.replace('"', '""')
RECURSIVE DoubleQuotes(_)
DoubleQuotes(s) ==
    IF s = <<>> THEN <<>>
    ELSE (IF Head(s) = DQuote THEN <<DQuote, DQuote>> ELSE <<Head(s)>>)
            \o DoubleQuotes(Tail(s))

\* _csv_escape of the text s of a field
CsvEscape(s) ==
    IF HasTok(s, Comma) \/ HasTok(s, DQuote)
    THEN <<DQuote>> \o DoubleQuotes(s) \o <<DQuote>> ELSE s

CsvHeader == <<"well_id", "core", "base_uid", "solvent_uid", "additive_uids", "T_C", "time_h">>

\* ",".join(parts)
RECURSIVE JoinComma(_)
JoinComma(parts) ==
    IF parts = <<>> THEN <<>>
    ELSE IF Len(parts) = 1 THEN parts[1]
    ELSE parts[1] \o <<Comma>> \o JoinComma(Tail(parts))

\* the lines of the rows from row i on, each closed by a line feed
RECURSIVE CsvLines(_, _)
CsvLines(rows, i) ==
    IF i > Len(rows) THEN <<>>
    ELSE JoinComma([j \in 1..Len(CsvHeader) |-> CsvEscape(FieldText(rows[i], CsvHeader[j]))])
            \o <<LF>> \o CsvLines(rows, i + 1)

\* "\n".join(lines) + "\n"
CsvText(rows) == JoinComma([j \in 1..Len(CsvHeader) |-> <<CsvHeader[j]>>]) \o <<LF>> \o CsvLines(rows, 1)

\* the plate designer returning the empty plate without the error marker
DesignPlateUnmarked(precs, plate_size, rules) ==
    [exc |-> "none", rows |-> <<>>, csv |-> CsvText(<<>>), error |-> Absent]

\* design_plate_from_reaction, from the precedents of the pack on
DesignPlate(precs, plate_size, rules) ==
    LET core_list == MostCommon(StrsOf(precs, "core"))
        n == Max(0, plate_size)
        seq == [i \in 1..n |-> core_list[((i - 1) % Len(core_list)) + 1]]
    IN  IF core_list = <<>>
        THEN [exc |-> "none", rows |-> <<>>, csv |-> CsvText(<<>>), error |-> NoPrecedents]
        ELSE IF n > 0 /\ Len(WellIds(n)) < n
        THEN \* _well_ids(plate_size)[i] beyond the ids generated
             [exc |-> "IndexError", rows |-> <<>>, csv |-> <<>>, error |-> Absent]
        ELSE CHOOSE out \in {[exc |-> "none", rows |-> rows_out, csv |-> CsvText(rows_out),
                              error |-> Absent] :
                             rows_out \in {[i \in 1..n |->
                                              PlateRow(precs, plate_size, rules, i - 1, seq[i])]}} :
                 TRUE

MaxPlatePrecs == 2      \* precedents of the pack the plate is designed from

P1 == [Precedent(<<R1>>, 1) EXCEPT !.T_C = IntV(80), !.time_h = IntV(12)]
P2 == [Precedent(<<R2>>, 1) EXCEPT !.T_C = IntV(110)]
P3 == Precedent(<<R3>>, 1)
P4 == Precedent(<<R4>>, 1)

PlateSizes == {0, 1, 2, 3, 5, 6, 7, 8, 9, 12, 16, 24, 25, 48, 81, 96}

PlateInit ==
    /\ plateIn \in [precs : SeqsUpTo({P1, P2, P3, P4}, MaxPlatePrecs), plate_size : PlateSizes,
                    rules : {NoRules}]
    /\ plateOut = [exc |-> "notrun", rows |-> <<>>, csv |-> <<>>, error |-> Absent]
    /\ SvcStart(IdleEnv, 0)
    /\ SimIdle
    /\ PoolIdle
    /\ RecIdle

\* one call of the plate designer
RunPlate ==
    /\ plateOut.exc = "notrun"
    /\ plateOut' = DesignPlate(plateIn.precs, plateIn.plate_size, plateIn.rules)
    /\ UNCHANGED <<plateIn, simVars, poolVars, svcVars, recVars>>

PlateNext == RunPlate

SpecPlate == PlateInit /\ [][PlateNext]_vars

CoreObserved == \E i \in 1..Len(plateIn.precs) : Truthy(plateIn.precs[i].core)

----------------------------------------------------------------------------
(* C6 *)

\* C6 as stated: for every plate_size >= 1, when at least one core is observed
\* among the precedents, the plate designer does not fail, returns exactly
\* plate_size rows, and their well ids are pairwise distinct.
C6_PlateSizeRowsDistinctWells ==
    (plateOut.exc # "notrun" /\ plateIn.plate_size >= 1 /\ CoreObserved)
        => /\ plateOut.exc = "none"
           /\ Len(plateOut.rows) = plateIn.plate_size
           /\ \A i, j \in 1..Len(plateOut.rows) :
                 i # j => plateOut.rows[i].well_id # plateOut.rows[j].well_id

----------------------------------------------------------------------------
(* Several threads of one process calling knn: functools.lru_cache looks   *)
(* its key up, releases the cache while the wrapped function runs, and     *)
(* stores the result afterwards (keeping an entry another thread stored    *)
(* for the same key in between)                                            *)

MaxThreads == 2         \* threads calling knn, one call each

Threads == 1..MaxThreads

ThreadArgs ==
    [family : {<<"Ullmann_CN">>}, features : {QBinOnly, QNoMatch}, k : {1},
     relax : {RelaxNone}]

ThreadInit ==
    /\ \E f \in SeqsUpTo({Line(R1), Line(R2)}, 1) :
          SvcFresh([demo |-> f, dir |-> <<>>, use_dataset |-> FALSE, encoder |-> FALSE,
                    seed |-> 0], 0)
    /\ pc = [t \in Threads |-> [at |-> "idle", a |-> NoCall]]
    /\ SimIdle
    /\ PoolIdle
    /\ PlateIdle
    /\ RecIdle

\* thread t calls knn(a): _knn_cached's lookup, then _knn_impl up to _load's
\* lookup, then the start of _load's body
Enter(t, a) ==
    /\ pc[t].at = "idle"
    /\ UNCHANGED <<env, precomp, budget, loaded, knnCache, listHeap, fpCache,
                   simVars, poolVars, plateVars, recVars>>
    /\ IF CacheHas(knnCache, KeyOf(a))
       THEN /\ pc' = [pc EXCEPT ![t] = [at |-> "done", a |-> a]]
            /\ call' = a
            /\ ret' = [exc |-> "none", pack |-> CacheGet(knnCache, KeyOf(a))]
            /\ history' = Append(history, Outcome(a, "none", CacheGet(knnCache, KeyOf(a)),
                                                  listHeap, loaded.rows))
            /\ UNCHANGED loadCount
       ELSE IF loaded.done
       THEN /\ pc' = [pc EXCEPT ![t] = [at |-> "scoring", a |-> a]]
            /\ UNCHANGED <<call, ret, history, loadCount>>
       ELSE /\ pc' = [pc EXCEPT ![t] = [at |-> "loading", a |-> a]]
            /\ loadCount' = loadCount + 1
            /\ UNCHANGED <<call, ret, history>>

\* the body of _load returns in thread t and lru_cache stores its rows
LoadReturn(t) ==
    /\ pc[t].at = "loading"
    /\ loaded' = [done |-> TRUE, rows |-> Load(env)]
    /\ pc' = [pc EXCEPT ![t].at = "scoring"]
    /\ UNCHANGED <<env, precomp, budget, loadCount, knnCache, listHeap, fpCache, call, ret,
                   history, simVars, poolVars, plateVars, recVars>>

\* lru_cache storing a result: an entry another thread stored for the key
\* while the function ran is kept and nothing is added; this one appends a
\* second entry
CacheStoreAlways(cache, key, pack) == Append(cache, [key |-> key, pack |-> pack])

\* lru_cache storing a result: an entry another thread stored for the key
\* while the function ran is kept and nothing is added
CacheStore(cache, key, pack) ==
    IF CacheHas(cache, key) THEN cache ELSE Append(cache, [key |-> key, pack |-> pack])

\* the rest of _knn_impl in thread t standing at "at", with fpc the vectors
\* encode_drfp_cached gives it, the store in _knn_cached's cache and the
\* return of knn
ScoreAt(t, at, fpc) ==
    /\ pc[t].at = at
    /\ \E a \in {pc[t].a} :
       \E out \in {KnnImpl(loaded.rows, env.seed, fpc, precomp, env.encoder,
                           a.family, a.features, a.k, a.relax)} :
       LET pack == [out.pack EXCEPT !.precedents = Len(listHeap) + 1]
       IN  /\ fpCache' = FpCacheAfterCall(loaded.rows, fpc, precomp, env.encoder, a)
           /\ call' = a
           /\ IF out.exc # "none"
              THEN /\ ret' = [exc |-> out.exc, pack |-> NoPack]
                   /\ history' = Append(history, Outcome(a, out.exc, NoPack, listHeap,
                                                         loaded.rows))
                   /\ UNCHANGED <<knnCache, listHeap>>
              ELSE /\ listHeap' = Append(listHeap, out.pack.precedents)
                   /\ knnCache' = CacheStore(knnCache, KeyOf(a), pack)
                   /\ ret' = [exc |-> "none", pack |-> pack]
                   /\ history' = Append(history,
                                    Outcome(a, "none", pack,
                                            Append(listHeap, out.pack.precedents),
                                            loaded.rows))
    /\ pc' = [pc EXCEPT ![t].at = "done"]
    /\ UNCHANGED <<env, precomp, budget, loaded, loadCount, simVars, poolVars, plateVars, recVars>>

\* the rest of _knn_impl in thread t without interruption
Score(t) == ScoreAt(t, "scoring", fpCache)

ThreadNext ==
    \E t \in Threads :
        \/ \E a \in ThreadArgs : Enter(t, a)
        \/ LoadReturn(t)
        \/ Score(t)

SpecThreads == ThreadInit /\ [][ThreadNext]_vars

----------------------------------------------------------------------------
(* C7 *)

\* C7 as stated: the body of _load runs at most once per process, also when
\* several threads make the first access concurrently.
C7_LoadBodyAtMostOnce == loadCount <= 1

----------------------------------------------------------------------------
(* knn with relax maps of the wrong type or shape *)

RelaxBadMin == ("min_candidates" :> Word("abc"))
RelaxNullMin == ("min_candidates" :> NoneV)
RelaxDigitsMin == ("min_candidates" :> Word("3"))
RelaxBadWeight == ("use_drfp" :> BoolV(TRUE)) @@ ("reaction_smiles" :> Word("HIGH_QUERY"))
                  @@ ("drfp_weight" :> Word("x"))
RelaxListOrder == ("fallback_order" :> ListV(<<"any">>))
RelaxIntOrder == ("fallback_order" :> IntV(5)) @@ ("min_candidates" :> IntV(3))
RelaxNested == ("weights" :> DictV)
RelaxStrStrict == ("strict_bin" :> Word("yes"))

MalformedRelax ==
    {RelaxBadMin, RelaxNullMin, RelaxDigitsMin, RelaxBadWeight, RelaxListOrder,
     RelaxIntOrder, RelaxNested, RelaxStrStrict}

RelaxArgs ==
    [family : {<<"Ullmann_CN">>, <<"Suzuki_CC">>}, features : {QBinOnly, QNoMatch},
     k : {1, 2}, relax : MalformedRelax]

RelaxInit ==
    /\ \E f \in SeqsUpTo({Line(R1), Line(R2)}, MaxRows) :
          SvcStart([demo |-> f, dir |-> <<>>, use_dataset |-> FALSE, encoder |-> TRUE,
                    seed |-> 0], MaxCalls)
    /\ SimIdle
    /\ PoolIdle
    /\ PlateIdle
    /\ RecIdle

RelaxNext == \E a \in RelaxArgs : Knn(a)

SpecRelax == RelaxInit /\ [][RelaxNext]_vars

----------------------------------------------------------------------------
(* C8 *)

\* C8 as stated: a relax map with entries of the wrong type or shape never
\* makes knn raise; the call returns a pack.
C8_MalformedRelaxReturnsPack == call \in RelaxArgs => Returned

----------------------------------------------------------------------------
(* knn over dataset files with lines that are not records *)

RNullFeat == [R1 EXCEPT !.featNull = TRUE, !.reaction_id = Word("N1")]
RStrYield == [R1 EXCEPT !.yield_value = Word("high"), !.reaction_id = Word("Y1")]
RawUllmann == [R2 EXCEPT !.rxn_type = Word("ullmann")]

DataLines ==
    {Line(R1), BlankLine, BadJsonLine, Line(NonDictRow), Line(RNullFeat), Line(RStrYield),
     Line(RawUllmann)}

DataArgs ==
    [family : {<<"Ullmann_CN">>}, features : {QBinOnly, QNoMatch}, k : {1, 2},
     relax : {RelaxNone}]

DataInit ==
    /\ \E f \in SeqsUpTo(DataLines, MaxRows), viaDir \in BOOLEAN :
          SvcStart([demo |-> IF viaDir THEN <<>> ELSE f,
                    dir |-> IF viaDir THEN f ELSE <<>>,
                    use_dataset |-> viaDir, encoder |-> FALSE, seed |-> 0], MaxCalls)
    /\ SimIdle
    /\ PoolIdle
    /\ PlateIdle
    /\ RecIdle

DataNext == \E a \in DataArgs : Knn(a)

SpecData == DataInit /\ [][DataNext]_vars

----------------------------------------------------------------------------
(* C9 *)

\* C9 as stated: whatever lines the dataset files hold (invalid JSON, a JSON
\* value that is not an object, a record with null features or a non-numeric
\* yield), every knn call returns a pack rather than raising.
C9_MalformedDatasetReturnsPack == call \in DataArgs => Returned

----------------------------------------------------------------------------
(* A caller that changes the packs it was given *)

MaxMutCalls == 2        \* knn calls of the caller
MaxReagents == 1        \* entries the caller appends to a reagents list

MutArgs ==
    [family : {<<"Ullmann_CN">>}, features : {QBinOnly, QNoMatch}, k : {1, 2},
     relax : {RelaxNone, RelaxBroad}]

MutInit ==
    /\ \E f \in SeqsUpTo({Line(R1), Line(R2), Line(R3)}, MaxRows) :
          SvcStart([demo |-> f, dir |-> <<>>, use_dataset |-> FALSE, encoder |-> FALSE,
                    seed |-> 0], MaxMutCalls)
    /\ SimIdle
    /\ PoolIdle
    /\ PlateIdle
    /\ RecIdle

\* the list the last returned pack's "precedents" entry points to
LastList == listHeap[ret.pack.precedents]

\* pack["precedents"].clear() on the pack the last call returned
CallerClearsPrecedents ==
    /\ Returned
    /\ LastList # <<>>
    /\ listHeap' = [listHeap EXCEPT ![ret.pack.precedents] = <<>>]
    /\ UNCHANGED <<env, loaded, loadCount, knnCache, fpCache, precomp, call, ret, budget,
                   history, pc, simVars, poolVars, plateVars, recVars>>

\* pack["precedents"][j]["reagents"].append(x) on the pack the last call returned
CallerAppendsReagent(j) ==
    /\ Returned
    /\ j \in 1..Len(LastList)
    /\ Len(loaded.rows[LastList[j].row].reagents) < MaxReagents
    /\ loaded' = [loaded EXCEPT !.rows[LastList[j].row].reagents = Append(@, "x")]
    /\ UNCHANGED <<env, loadCount, knnCache, listHeap, fpCache, precomp, call, ret, budget,
                   history, pc, simVars, poolVars, plateVars, recVars>>

MutNext ==
    \/ \E a \in MutArgs : Knn(a)
    \/ CallerClearsPrecedents
    \/ \E j \in 1..PRECEDENT_CAP : CallerAppendsReagent(j)

SpecMutate == MutInit /\ [][MutNext]_vars

----------------------------------------------------------------------------
(* C10 *)

\* C10 as stated: after a caller changes a pack knn returned (its precedents
\* list, or a list-valued field of a precedent), the loaded rows are what the
\* loader read, and a later call with the same arguments returns the same
\* pack as the earlier one.
C10_RowsReadOnlyResultsFresh ==
    /\ loaded.done => loaded.rows = Load(env)
    /\ \A i, j \in 1..Len(history) :
          (KeyEq(history[i].key, history[j].key)
             /\ history[i].exc = "none" /\ history[j].exc = "none")
              => history[i].view = history[j].view

----------------------------------------------------------------------------
(* C11 *)

\* the records of the requested family in the dataset handed to the selector
PoolFamilyCount ==
    Cardinality({i \in 1..Len(poolIn.rows) :
        PyEq(OrElse(poolIn.rows[i].rxn_type, EmptyStr), StrV(poolIn.family_txt))})

\* min_candidates as the selector reads it
PoolMinCandidates == IntOf(GetOr(poolIn.relax, "min_candidates", IntV(poolIn.k)))

\* the fallback order the selector walks holds the key "any"
PoolOrderHasAny ==
    LET order == IterElems(GetOr(poolIn.relax, "fallback_order", DefaultFallback))
    IN  \E j \in 1..Len(order) : order[j] = "any"

\* C11 as stated: for every relax config, also a fallback_order without the
\* key "any", the selector returns fewer than min_candidates records only if
\* the requested family has fewer than min_candidates records in the dataset.
C11_ShortPoolOnlyIfSmallFamily ==
    (PoolRan /\ Len(poolOut.pool) < PoolMinCandidates)
        => PoolFamilyCount < PoolMinCandidates

\* C11 amended: when the fallback order holds the key "any" (as the default
\* order does), the selector returns fewer than min_candidates records only
\* if the requested family has fewer than min_candidates records.
C11_ShortPoolOnlyIfSmallFamilyGivenAny ==
    (PoolRan /\ PoolOrderHasAny /\ Len(poolOut.pool) < PoolMinCandidates)
        => PoolFamilyCount < PoolMinCandidates

\* C11 witness: the exact-bin matches were fewer than min_candidates and the
\* walk of a fallback order holding "any" filled the pool up to min_candidates.
C11_Witness ==
    /\ PoolRan /\ PoolOrderHasAny
    /\ Len(ExactBinMatches) < PoolMinCandidates
    /\ Len(poolOut.pool) >= PoolMinCandidates
    /\ PoolMinCandidates >= 2

----------------------------------------------------------------------------
(* knn over records whose stored yield is any number *)

RYieldOver == [R1 EXCEPT !.yield_value = IntV(150), !.reaction_id = Word("Y150")]
RYieldNeg == [R1 EXCEPT !.yield_value = IntV(-300), !.reaction_id = Word("YM300")]
RYieldTrue == [R2 EXCEPT !.yield_value = BoolV(TRUE), !.reaction_id = Word("YT")]

YieldLines == {Line(R1), Line(R2), Line(RYieldOver), Line(RYieldNeg), Line(RYieldTrue)}

YieldArgs ==
    [family : {<<"Ullmann_CN">>}, features : {QBinOnly, QNoMatch}, k : {1, 2},
     relax : {RelaxNone, RelaxBroad}]

YieldInit ==
    /\ \E f \in SeqsUpTo(YieldLines, MaxRows) :
          SvcStart([demo |-> f, dir |-> <<>>, use_dataset |-> FALSE, encoder |-> FALSE,
                    seed |-> 0], MaxCalls)
    /\ SimIdle
    /\ PoolIdle
    /\ PlateIdle
    /\ RecIdle

YieldNext == \E a \in YieldArgs : Knn(a)

SpecYield == YieldInit /\ [][YieldNext]_vars

\* the candidates of the last call that the scoring loop kept, each with its
\* neighbor_score in units of 1/(200*ONE)
CallScored ==
    LET kept == SelectSeq(CallPool, LAMBDA i : CallSimTotal(i) > 0)
    IN  [j \in 1..Len(kept) |->
            [idx |-> kept[j],
             score |-> NeighborScore(CallSimTotal(kept[j]), loaded.rows[kept[j]].yield_value)]]

----------------------------------------------------------------------------
(* C12 *)

\* C12 as stated: for every candidate knn scores, whatever numeric yield its
\* record stores, neighbor_score = total_similarity * (0.5 + 0.5 * yield/100)
\* lies in [0, 1].
C12_NeighborScoreInUnitInterval ==
    Returned =>
        \A j \in 1..Len(CallScored) :
            CallScored[j].score >= 0 /\ CallScored[j].score <= 200 * ONE

----------------------------------------------------------------------------
(* C13 *)

\* the weight denominator _similarity accumulates for a and b, in 1/(100*EXPONE)
SimDenominator(a, b) ==
    SumWeights(1) * EXPONE + NumMatch(a, b, NumericKeys[1])[2]
        + NumMatch(a, b, NumericKeys[2])[2]

\* C13: similarity(a, b) lies in [0, 1] for every pair of feature dicts, with
\* mismatched or missing keys and any numeric (also NaN) T_C / time_h, and it
\* is 0.0 when the accumulated weight denominator is <= 0.
C13_SimilarityInUnitInterval ==
    simOut # NotRun =>
        /\ simOut.n >= 0 /\ simOut.n <= ONE
        /\ SimDenominator(simA, simB) <= 0 => simOut.n = 0

\* C13 witness: two dicts with different key sets and different numeric T_C
\* were scored strictly between 0 and 1.
C13_Witness ==
    /\ simOut # NotRun
    /\ DOMAIN simA # DOMAIN simB
    /\ "T_C" \in DOMAIN simA /\ "T_C" \in DOMAIN simB
    /\ FloatOk(simA["T_C"]) /\ FloatOk(simB["T_C"]) /\ simA["T_C"] # simB["T_C"]
    /\ simOut.n > 0 /\ simOut.n < ONE

----------------------------------------------------------------------------
(* knn over a family with more records than a pack shows *)

MaxCapRows == 11        \* records of the family in the dataset file
MaxCapCalls == 1        \* knn calls of one process

\* a file of n records like R1, after the records of lead
CapFile(lead, n) == [j \in 1..Len(lead) |-> Line(lead[j])] \o [j \in 1..n |-> Line(R1)]

CapArgs ==
    [family : {<<"Ullmann_CN">>}, features : {QBinOnly, QNoBin},
     k : {1, 11, 50}, relax : {RelaxNone, RelaxDrfp}]

CapInit ==
    /\ \E lead \in {<<>>, <<R2>>, <<R3>>, <<R2, R4>>}, n \in 0..MaxCapRows, enc \in BOOLEAN :
          SvcStart([demo |-> CapFile(lead, n), dir |-> <<>>, use_dataset |-> FALSE,
                    encoder |-> enc, seed |-> 0], MaxCapCalls)
    /\ SimIdle
    /\ PoolIdle
    /\ PlateIdle
    /\ RecIdle

CapNext == \E a \in CapArgs : Knn(a)

SpecCap == CapInit /\ [][CapNext]_vars

----------------------------------------------------------------------------
(* C14 *)

\* C14: in every pack knn returns, support is the number of pool candidates
\* whose combined similarity is > 0, counted before the ranking is cut, so
\* support >= len(precedents); and len(precedents) <= 10 whatever k is.
C14_SupportCountsPositiveScores ==
    Returned =>
        /\ LastPack.support = Len(CallScored)
        /\ LastPack.support >= Len(LastPack.precedents)
        /\ Len(LastPack.precedents) <= 10

\* C14 witness: a call with k = 50 over more than ten positively scored
\* candidates returned ten precedents and the full count as support.
C14_Witness ==
    /\ Returned /\ call.k = 50
    /\ Len(CallScored) > 10 /\ LastPack.support = Len(CallScored)
    /\ Len(LastPack.precedents) = 10

----------------------------------------------------------------------------
(* knn over a dataset of several families, under several relax configs *)

RelaxAnyOnly == ("fallback_order" :> TupleV(<<"any">>)) @@ ("min_candidates" :> IntV(3))
RelaxNoAny == ("fallback_order" :> TupleV(<<"LG", "nuc_class">>))
              @@ ("min_candidates" :> IntV(2))

FamArgs ==
    [family : {<<"Ullmann_CN">>, <<"Suzuki_CC">>}, features : {QBinOnly, QNoBin},
     k : {1, 2}, relax : {RelaxNone, RelaxBroad, RelaxAnyOnly, RelaxNoAny}]

FamInit ==
    /\ \E f \in SeqsUpTo({Line(R1), Line(R2), Line(R4), Line(R5)}, MaxRows) :
          SvcStart([demo |-> f, dir |-> <<>>, use_dataset |-> FALSE, encoder |-> FALSE,
                    seed |-> 0], MaxCalls)
    /\ SimIdle
    /\ PoolIdle
    /\ PlateIdle
    /\ RecIdle

FamNext == \E a \in FamArgs : Knn(a)

SpecFam == FamInit /\ [][FamNext]_vars

\* row i of the loaded dataset belongs to the family the last call asked for
InCallFamily(i) ==
    PyEq(OrElse(loaded.rows[i].rxn_type, EmptyStr), StrV(FamilyText(call.family)))

----------------------------------------------------------------------------
(* C15 *)

\* C15: every record of the candidate pool belongs to the requested family,
\* under every relax config and every fallback step, "any" included; so every
\* precedent knn returns comes from the requested family.
C15_PoolAndPrecedentsInFamily ==
    Returned =>
        /\ \A j \in 1..Len(CallPool) : InCallFamily(CallPool[j])
        /\ \A j \in 1..Len(LastPack.precedents) : InCallFamily(LastPack.precedents[j].p.row)

\* C15 witness: the dataset holds a record of another family with the query's
\* bin, no record of the requested family has that bin, and the fallback step
\* "any" filled the pool the returned precedents come from.
C15_Witness ==
    /\ Returned
    /\ Get(call.relax, "fallback_order") = TupleV(<<"any">>)
    /\ \E i \in 1..Len(loaded.rows) :
          /\ ~InCallFamily(i)
          /\ Get(loaded.rows[i].features, "bin") = Get(call.features, "bin")
    /\ \A j \in 1..Len(CallPool) :
          Get(loaded.rows[CallPool[j]].features, "bin") # Get(call.features, "bin")
    /\ Len(LastPack.precedents) > 0

----------------------------------------------------------------------------
(* The two-record scenario: R1 (bin LG:Br|NUC:aniline) and R2 (bin          *)
(* LG:Cl|NUC:phenol), both of yield 50; the query's fingerprint equals R2's *)
(* and shares no bit with R1's                                             *)

\* drfp_weight values, in hundredths
BlendWeights == {10 * i : i \in 0..10}

RelaxBlend(w) ==
    ("use_drfp" :> BoolV(TRUE)) @@ ("reaction_smiles" :> Word("HIGH_QUERY"))
        @@ ("drfp_weight" :> IntV(w)) @@ ("strict_bin" :> BoolV(FALSE))
        @@ ("min_candidates" :> IntV(2))

BlendArgs ==
    [family : {<<"Ullmann_CN">>}, features : {QBinOnly, FBrAniline}, k : {1, 2},
     relax : {RelaxBlend(w) : w \in BlendWeights}]

BlendInit ==
    /\ \E f \in {<<Line(R1), Line(R2)>>, <<Line(R2), Line(R1)>>}, enc \in BOOLEAN :
          SvcStart([demo |-> f, dir |-> <<>>, use_dataset |-> FALSE, encoder |-> enc,
                    seed |-> 0], MaxCalls)
    /\ SimIdle
    /\ PoolIdle
    /\ PlateIdle
    /\ RecIdle

BlendNext == \E a \in BlendArgs : Knn(a)

SpecBlend == BlendInit /\ [][BlendNext]_vars

\* the reaction_id of the precedent ranked first in the last pack
FirstId == LastPack.precedents[1].p.reaction_id

\* drfp_weight of the last call, in hundredths
CallWeight == FloatOf(GetOr(call.relax, "drfp_weight", IntV(40)))

----------------------------------------------------------------------------
(* C16 *)

\* C16: in the two-record scenario with both records candidates, knn with
\* drfp_weight = 0 ranks record 1 first with similarity 1.0; with blending on
\* and the query's fingerprint far closer to record 2's, from drfp_weight =
\* 0.6 (below 1.0) up to 1.0 record 2 ranks above record 1.
C16_BlendReordersRanking ==
    Returned =>
        /\ Len(CallPool) = 2
        /\ CallWeight = 0 =>
              /\ FirstId = R1.reaction_id
              /\ \E i \in 1..Len(loaded.rows) :
                    loaded.rows[i] = R1 /\ CallSimTotal(i) = ONE
        /\ (env.encoder /\ CallWeight >= 60 /\ CallWeight <= 100) =>
              FirstId = R2.reaction_id

\* C16 witness: with blending on and drfp_weight 0.9 both records were ranked,
\* record 2 above record 1.
C16_Witness ==
    /\ Returned /\ env.encoder /\ CallWeight = 90
    /\ Len(LastPack.precedents) = 2
    /\ LastPack.precedents[1].p.reaction_id = R2.reaction_id
    /\ LastPack.precedents[2].p.reaction_id = R1.reaction_id

----------------------------------------------------------------------------
(* knn asked for fingerprint blending, with and without a usable encoder *)

MaxDegradeCalls == 2    \* knn calls of one process

\* a reaction string the encoder returns None for
BadQuery == <<"BAD_QUERY">>

RelaxDegrade(use, q) ==
    ("use_drfp" :> BoolV(use)) @@ ("reaction_smiles" :> StrV(q))
        @@ ("drfp_weight" :> IntV(100)) @@ ("min_candidates" :> IntV(2))
        @@ ("precompute_drfp" :> BoolV(TRUE))

DegradeArgs ==
    [family : {<<"Ullmann_CN">>}, features : {QBinOnly}, k : {1, 2},
     relax : {RelaxDegrade(use, q) : use \in BOOLEAN, q \in {<<"HIGH_QUERY">>, BadQuery}}]

DegradeInit ==
    /\ \E f \in SeqsUpTo({Line(R1), Line(R2), Line(R5)}, MaxRows), enc \in BOOLEAN :
          SvcStart([demo |-> f, dir |-> <<>>, use_dataset |-> FALSE, encoder |-> enc,
                    seed |-> 0], MaxDegradeCalls)
    /\ SimIdle
    /\ PoolIdle
    /\ PlateIdle
    /\ RecIdle

DegradeNext == \E a \in DegradeArgs : Knn(a)

SpecDegrade == DegradeInit /\ [][DegradeNext]_vars

\* call x asked for blending that cannot happen: no encoder, or a query string
\* the encoder returns None for
BlendUnavailable(x) ==
    /\ Truthy(Get(x.key.relax, "use_drfp"))
    /\ ~env.encoder \/ PyStr(Get(x.key.relax, "reaction_smiles")) = BadQuery

\* call y is call x with use_drfp false
SameButNoDrfp(x, y) ==
    /\ x.key.family = y.key.family /\ x.key.features = y.key.features /\ x.key.k = y.key.k
    /\ y.key.relax = [x.key.relax EXCEPT !["use_drfp"] = BoolV(FALSE)]

----------------------------------------------------------------------------
(* C17 *)

\* C17: when the encoder is unavailable, or returns None for the query
\* string, knn with use_drfp true does not raise and returns the same pack
\* (support, precedents and their order) as the same call with use_drfp false.
C17_DegradesToCategorical ==
    \A i \in 1..Len(history) :
        BlendUnavailable(history[i]) =>
            /\ history[i].exc = "none"
            /\ \A j \in 1..Len(history) :
                  SameButNoDrfp(history[i], history[j]) => history[j].view = history[i].view

\* C17 witness: with the encoder installed and a query it returns None for,
\* a use_drfp call and its use_drfp-false twin both ranked two candidates whose
\* reaction strings the encoder accepts.
C17_Witness ==
    \E i, j \in 1..Len(history) :
        /\ env.encoder /\ BlendUnavailable(history[i])
        /\ SameButNoDrfp(history[i], history[j])
        /\ history[i].view.support = 2 /\ Len(history[i].view.precedents) = 2
        /\ history[j].view.support = 2

----------------------------------------------------------------------------
(* recommend.py: recommend_from_reaction, from the precedent pack on *)

\* the core vote taking the first label, whatever its count
ChosenCoreFirstLabel(cores) ==
    IF cores = <<>> THEN NoneV ELSE StrV(Distinct(cores)[1])

\* the Laplace-smoothed score of label L as the fraction [num, den]
LaplaceScore(cores, L) ==
    [num |-> Count(cores, L) + 1, den |-> Len(cores) + Max(1, Len(Distinct(cores)))]

\* x < y for fractions with positive denominators
FracLess(x, y) == x.num * y.den < y.num * x.den

\* max(scores, key=scores.get): the first label, in order of first occurrence,
\* that no label beats; None without labels
ChosenCore(cores) ==
    LET labels == Distinct(cores)
        best == CHOOSE i \in 1..Len(labels) :
                    /\ \A j \in 1..Len(labels) :
                          ~FracLess(LaplaceScore(cores, labels[i]), LaplaceScore(cores, labels[j]))
                    /\ \A j \in 1..(i - 1) :
                          FracLess(LaplaceScore(cores, labels[j]), LaplaceScore(cores, labels[i]))
    IN  IF labels = <<>> THEN NoneV ELSE StrV(labels[best])

\* round(n / d, 0) for n >= 0, d > 0: to the nearest integer, a tie to the even
\* one
RoundHalfEven(n, d) ==
    LET q == n \div d
        r == n % d
    IN  IF 2 * r > d \/ (2 * r = d /\ q % 2 = 1) THEN q + 1 ELSE q

\* the confidence without the rounding to three decimals, as a fraction of
\* thousandths
ConfidenceExact(count, total, support) ==
    LET f == IF support >= 5 THEN 950 ELSE 500
        n == f * count
        d == Max(1, total)
    IN  IF n < 300 * d THEN [num |-> 300, den |-> 1]
        ELSE IF n > 950 * d THEN [num |-> 950, den |-> 1]
        ELSE [num |-> n, den |-> d]

\* the confidence put on a factor of 1.0 whatever the support
ConfidenceNoSupportFactor(count, total, support) ==
    LET n == 1000 * count
        d == Max(1, total)
    IN  IF n < 300 * d THEN 300
        ELSE IF n > 950 * d THEN 950
        ELSE RoundHalfEven(n, d)

\* round(max(0.3, min(0.95, f * core_vote_share)), 3), in thousandths
Confidence(count, total, support) ==
    LET f == IF support >= 5 THEN 950 ELSE 500
        n == f * count
        d == Max(1, total)
    IN  IF n < 300 * d THEN 300
        ELSE IF n > 950 * d THEN 950
        ELSE RoundHalfEven(n, d)

\* the values behind base_list / solv_list: the group's most common first, or
\* every value of precs when the group has none
PickList(group, precs, key) ==
    IF StrsOf(group, key) # <<>> THEN MostCommon(StrsOf(group, key)) ELSE StrsOf(precs, key)

\* recommend_from_reaction from the pack on: the recommendation dict
Recommend(precs, pack_support, rules) ==
    LET support == IF pack_support # 0 THEN pack_support ELSE Len(precs)
        cores == StrsOf(precs, "core")
        chosen_core == ChosenCore(cores)
        group == IF Truthy(chosen_core)
                 THEN SelectSeq(precs,
                        LAMBDA p : PyStr(OrElse(p.core, EmptyStr)) = chosen_core.s)
                 ELSE precs
        b0 == PickWithConstraints(PickList(group, precs, "base_uid"), rules)
        s0 == PickWithConstraints(PickList(group, precs, "solvent_uid"), rules)
        base_pick == IF ~Truthy(b0) /\ precs # <<>>
                     THEN PickWithConstraints(Distinct(StrsOf(precs, "base_uid")), rules) ELSE b0
        solv_pick == IF ~Truthy(s0) /\ precs # <<>>
                     THEN PickWithConstraints(Distinct(StrsOf(precs, "solvent_uid")), rules)
                     ELSE s0
    IN  [core |-> chosen_core,
         base_uid |-> base_pick,
         solvent_uid |-> solv_pick,
         T_C |-> Median(IF Nums(group, "T_C") # <<>> THEN Nums(group, "T_C")
                        ELSE Nums(precs, "T_C")),
         time_h |-> Median(IF Nums(group, "time_h") # <<>> THEN Nums(group, "time_h")
                           ELSE Nums(precs, "time_h")),
         confidence |-> Confidence(IF Truthy(chosen_core) THEN Count(cores, chosen_core.s)
                                   ELSE 0,
                                   Len(cores), support)]

MaxRecPrecs == 3        \* precedents of the pack the recommender works from

\* the packs knn hands over: support is 0 for an empty pack, else at least the
\* number of precedents
RecInit ==
    /\ \E precs \in SeqsUpTo({P1, P2, P3, P4}, MaxRecPrecs), more \in {0, 1, 5} :
          recIn = [precs |-> precs,
                   support |-> IF precs = <<>> THEN 0 ELSE Len(precs) + more,
                   rules |-> NoRules]
    /\ recOut = [exc |-> "notrun", rec |-> NoRec]
    /\ SvcStart(IdleEnv, 0)
    /\ SimIdle
    /\ PoolIdle
    /\ PlateIdle

\* one call of the recommender
RunRecommend ==
    /\ recOut.exc = "notrun"
    /\ recOut' = [exc |-> "none", rec |-> Recommend(recIn.precs, recIn.support, recIn.rules)]
    /\ UNCHANGED <<recIn, simVars, poolVars, svcVars, plateVars>>

RecNext == RunRecommend

SpecRec == RecInit /\ [][RecNext]_vars

RecRan == recOut.exc = "none"

\* the core labels of the precedents handed to the recommender
RecCores == StrsOf(recIn.precs, "core")

\* (count(L) + 1) / (total_votes + num_distinct_labels), in units of 1/ONE
RecScore(L) ==
    ((Count(RecCores, L) + 1) * ONE)
        \div (Len(RecCores) + Cardinality({RecCores[j] : j \in 1..Len(RecCores)}))

----------------------------------------------------------------------------
(* C18 *)

\* C18: the chosen core is a label that maximises the Laplace-smoothed score
\* (count(L) + 1) / (total_votes + num_distinct_labels) over the core labels
\* of the precedents, hence a label with maximal vote count; when every
\* precedent carries the same core label, the chosen core is that label.
C18_ChosenCoreMaximisesVotes ==
    (RecRan /\ RecCores # <<>>) =>
        /\ recOut.rec.core.t = "str"
        /\ Count(RecCores, recOut.rec.core.s) > 0
        /\ \A i \in 1..Len(RecCores) :
              /\ RecScore(RecCores[i]) <= RecScore(recOut.rec.core.s)
              /\ Count(RecCores, RecCores[i]) <= Count(RecCores, recOut.rec.core.s)
        /\ \A i \in 1..Len(recIn.precs) :
              (\A j \in 1..Len(recIn.precs) : recIn.precs[j].core = recIn.precs[i].core
                                               /\ Truthy(recIn.precs[i].core))
                  => recOut.rec.core = recIn.precs[i].core

\* C18 witness: three precedents, the label of the first in the minority, and
\* the majority label chosen.
C18_Witness ==
    /\ RecRan /\ Len(RecCores) = 3
    /\ Count(RecCores, RecCores[1]) = 1
    /\ Count(RecCores, recOut.rec.core.s) = 2

----------------------------------------------------------------------------
(* C19 *)

\* vote_share * (0.95 if support >= 5 else 0.5) clamped to [0.30, 0.95], for
\* the pack handed to the recommender, as a fraction of thousandths
RecConfidenceExact ==
    ConfidenceExact(IF RecCores = <<>> THEN 0 ELSE Count(RecCores, recOut.rec.core.s),
                    Len(RecCores),
                    IF recIn.support # 0 THEN recIn.support ELSE Len(recIn.precs))

\* C19 as stated: the confidence returned equals vote_share * (0.95 if
\* support >= 5 else 0.5) clamped to [0.30, 0.95], exactly.
C19_ConfidenceIsClampedProduct ==
    RecRan =>
        /\ recOut.rec.confidence * RecConfidenceExact.den = RecConfidenceExact.num
        /\ recOut.rec.confidence >= 300 /\ recOut.rec.confidence <= 950

\* C19 amended: the confidence returned is vote_share * (0.95 if support >= 5
\* else 0.5) clamped to [0.30, 0.95] and then rounded to three decimals; it
\* lies in [0.30, 0.95] for every call, also one without precedents.
C19_ConfidenceIsRoundedClampedProduct ==
    RecRan =>
        /\ recOut.rec.confidence
              = RoundHalfEven(RecConfidenceExact.num, RecConfidenceExact.den)
        /\ recOut.rec.confidence >= 300 /\ recOut.rec.confidence <= 950
        /\ recIn.precs = <<>> => recOut.rec.confidence = 300

\* C19 witness: a vote share of 2/3 with support >= 5 gave 0.633.
C19_Witness ==
    /\ RecRan /\ recIn.support >= 5
    /\ Len(RecCores) = 3 /\ Count(RecCores, recOut.rec.core.s) = 2
    /\ recOut.rec.confidence = 633

----------------------------------------------------------------------------
(* The plate designer over packs with up to three cores *)

MaxCyclePrecs == 4      \* precedents of the pack the plate is designed from

P5 == [P1 EXCEPT !.reaction_id = Word("R6"), !.core = Word("CuI/L3"),
                 !.condition_core = Word("CuI/L3"), !.base_uid = NoneV]

CycleSizes == {1, 2, 3, 5, 7, 24}

CycleInit ==
    /\ plateIn \in [precs : SeqsUpTo({P1, P2, P4, P5}, MaxCyclePrecs), plate_size : CycleSizes,
                    rules : {NoRules}]
    /\ plateOut = [exc |-> "notrun", rows |-> <<>>, csv |-> <<>>, error |-> Absent]
    /\ SvcStart(IdleEnv, 0)
    /\ SimIdle
    /\ PoolIdle
    /\ RecIdle

CycleNext == RunPlate

SpecCycle == CycleInit /\ [][CycleNext]_vars

\* the core labels observed among the precedents, one per precedent with a core
PlateCores == StrsOf(plateIn.precs, "core")

\* how many distinct cores are observed
PlateCoreKinds == Cardinality({PlateCores[j] : j \in 1..Len(PlateCores)})

----------------------------------------------------------------------------
(* C20 *)

\* C20: in a non-empty plate the wells cycle through the distinct observed
\* cores ranked by descending frequency (well i holds core c_(i mod m)), and
\* the well ids start at A1 and follow the row-letter / column-number scheme
\* in row-major order.
C20_WellsCycleRankedCores ==
    (plateOut.exc = "none" /\ plateOut.rows # <<>>) =>
        LET rows == plateOut.rows
            m == PlateCoreKinds
        IN  /\ \A i \in 1..Len(rows) :
                  /\ Count(PlateCores, rows[i].core) > 0
                  /\ i > m => rows[i].core = rows[i - m].core
            /\ \A i, j \in 1..Min(m, Len(rows)) :
                  i < j => /\ rows[i].core # rows[j].core
                           /\ Count(PlateCores, rows[i].core) >= Count(PlateCores, rows[j].core)
            /\ rows[1].well_id = [letter |-> 0, col |-> 1]
            /\ \E cols \in 1..Len(rows) :
                  \A i \in 1..Len(rows) :
                      rows[i].well_id = [letter |-> (i - 1) \div cols,
                                         col |-> ((i - 1) % cols) + 1]

\* C20 witness: a 24-well plate over three cores, the most frequent of them
\* not the first among the precedents; well 4 repeats the core of well 1 and
\* well 7 is B1.
C20_Witness ==
    /\ plateOut.exc = "none" /\ Len(plateOut.rows) = 24
    /\ PlateCoreKinds = 3
    /\ Count(PlateCores, plateOut.rows[1].core) = 2
    /\ PyStr(plateIn.precs[1].core) # plateOut.rows[1].core
    /\ plateOut.rows[4].core = plateOut.rows[1].core
    /\ plateOut.rows[7].well_id = [letter |-> 1, col |-> 1]

----------------------------------------------------------------------------
(* The plate's CSV text read back by csv.reader *)

\* the reader before the first character: its state, the field and the record
\* being read, and the records read so far
CsvStart == [st |-> "START_RECORD", field |-> <<>>, rec |-> <<>>, out |-> <<>>]

\* the end of a record
CsvEndRecord(r) ==
    [st |-> "START_RECORD", field |-> <<>>, rec |-> <<>>,
     out |-> Append(r.out, IF r.st = "START_RECORD" THEN <<>> ELSE Append(r.rec, r.field))]

\* csv.reader in the default dialect taking the character c
CsvStep(r, c) ==
    CASE r.st = "IN_QUOTED_FIELD" ->
            IF c = DQuote THEN [r EXCEPT !.st = "QUOTE_IN_QUOTED_FIELD"]
            ELSE [r EXCEPT !.field = Append(@, c)]
      [] c = LF -> CsvEndRecord(r)
      [] c = Comma ->
            [r EXCEPT !.st = "START_FIELD", !.field = <<>>, !.rec = Append(@, r.field)]
      [] c = DQuote /\ r.st \in {"START_RECORD", "START_FIELD"} ->
            [r EXCEPT !.st = "IN_QUOTED_FIELD"]
      [] c = DQuote /\ r.st = "QUOTE_IN_QUOTED_FIELD" ->
            [r EXCEPT !.st = "IN_QUOTED_FIELD", !.field = Append(@, c)]
      [] OTHER -> [r EXCEPT !.st = "IN_FIELD", !.field = Append(@, c)]

\* the lines io.StringIO(text) iterates over, each with its line feed
RECURSIVE TextLines(_)
TextLines(text) ==
    IF text = <<>> THEN <<>>
    ELSE IF ~HasTok(text, LF) THEN <<text>>
    ELSE <<SubSeq(text, 1, FirstTok(text, LF))>>
            \o TextLines(SubSeq(text, FirstTok(text, LF) + 1, Len(text)))

\* the reader r after the first n characters of a line
RECURSIVE CsvReadLine(_, _, _)
CsvReadLine(r, line, n) ==
    IF n = 0 THEN r
    ELSE CHOOSE x \in {CsvStep(q, line[n]) : q \in {CsvReadLine(r, line, n - 1)}} : TRUE

\* the reader after the first n lines
RECURSIVE CsvRead(_, _)
CsvRead(lines, n) ==
    IF n = 0 THEN CsvStart
    ELSE CHOOSE x \in {CsvReadLine(q, lines[n], Len(lines[n])) : q \in {CsvRead(lines, n - 1)}} :
             TRUE

\* list(csv.reader(io.StringIO(text)))
CsvParse(text) ==
    LET lines == TextLines(text)
        r == CsvRead(lines, Len(lines))
    IN  IF r.st = "START_RECORD" THEN r.out ELSE CsvEndRecord(r).out

MaxCsvPrecs == 2        \* precedents of the pack the plate is designed from

PComma == [P1 EXCEPT !.core = StrV(<<"CuI", Comma, "L1">>)]
PQuote == [P2 EXCEPT !.core = StrV(<<"CuI", DQuote, "L2", DQuote>>),
                     !.base_uid = StrV(<<"K2CO3", Comma, "aq">>)]
PLine == [P1 EXCEPT !.core = StrV(<<"CuI", LF, "L1">>)]

CsvSizes == {1, 2, 3, 4}

CsvInit ==
    /\ plateIn \in [precs : SeqsUpTo({P1, P4, PComma, PQuote, PLine}, MaxCsvPrecs),
                    plate_size : CsvSizes, rules : {NoRules}]
    /\ plateOut = [exc |-> "notrun", rows |-> <<>>, csv |-> <<>>, error |-> Absent]
    /\ SvcStart(IdleEnv, 0)
    /\ SimIdle
    /\ PoolIdle
    /\ RecIdle

CsvNext == RunPlate

SpecCsv == CsvInit /\ [][CsvNext]_vars

\* the records csv.reader reads from the plate's CSV text
PlateParsed == CsvParse(plateOut.csv)

\* the first field of a parsed record, the empty text for a record without
\* fields
FirstField(rec) == IF rec = <<>> THEN <<>> ELSE rec[1]

----------------------------------------------------------------------------
(* C21 *)

\* C21 as stated: whatever the field values, parsing the CSV of a returned
\* plate gives the fixed header, as many records after it as the plate has
\* rows, and the set of well ids of the rows.
C21_CsvRoundTrip ==
    plateOut.exc = "none" =>
        /\ PlateParsed[1] = [j \in 1..Len(CsvHeader) |-> <<CsvHeader[j]>>]
        /\ Len(PlateParsed) - 1 = Len(plateOut.rows)
        /\ {FirstField(PlateParsed[i]) : i \in 2..Len(PlateParsed)}
              = {<<WellTok(plateOut.rows[i].well_id)>> : i \in 1..Len(plateOut.rows)}

----------------------------------------------------------------------------
(* C22 *)

----------------------------------------------------------------------------
(* Several threads calling knn, the calls of encode_drfp_cached inside      *)
(* _knn_impl being steps of their own: a thread looks its fingerprint keys  *)
(* up, encodes the missing ones with the cache released, and stores them    *)

RaceArgs ==
    [family : {<<"Ullmann_CN">>}, features : {QBinOnly}, k : {2}, relax : {RelaxNone, RelaxDrfp}]

RaceInit ==
    /\ \E f \in {<<Line(R1), Line(R2)>>, <<Line(R2), Line(R1), Line(R3)>>}, enc \in BOOLEAN :
          SvcFresh([demo |-> f, dir |-> <<>>, use_dataset |-> FALSE, encoder |-> enc,
                    seed |-> 0], 0)
    /\ pc = [t \in Threads |-> [at |-> "idle", a |-> NoCall]]
    /\ SimIdle
    /\ PoolIdle
    /\ PlateIdle
    /\ RecIdle

\* thread t looks up the fingerprint keys its run encodes and computes the
\* vectors of those the cache misses
EncodeMiss(t) ==
    /\ pc[t].at = "scoring"
    /\ \E after \in {FpCacheAfterCall(loaded.rows, fpCache, precomp, env.encoder, pc[t].a)} :
          pc' = [pc EXCEPT ![t] = [at |-> "encoding", a |-> pc[t].a,
                                   fps |-> [key \in DOMAIN after \ DOMAIN fpCache |-> after[key]]]]
    /\ UNCHANGED <<env, precomp, budget, loaded, loadCount, knnCache, listHeap, fpCache, call,
                   ret, history, simVars, poolVars, plateVars, recVars>>

\* lru_cache stores the vectors thread t computed, keeping the entries
\* another thread stored in between
EncodeStore(t) ==
    /\ pc[t].at = "encoding"
    /\ fpCache' = [key \in DOMAIN fpCache \cup DOMAIN pc[t].fps |->
                      IF key \in DOMAIN fpCache THEN fpCache[key] ELSE pc[t].fps[key]]
    /\ pc' = [pc EXCEPT ![t].at = "ranking"]
    /\ UNCHANGED <<env, precomp, budget, loaded, loadCount, knnCache, listHeap, call,
                   ret, history, simVars, poolVars, plateVars, recVars>>

\* the rest of _knn_impl in thread t, run on the vectors its own calls of
\* encode_drfp_cached returned
Rank(t) ==
    ScoreAt(t, "ranking",
            [key \in DOMAIN fpCache \cup DOMAIN pc[t].fps |->
                IF key \in DOMAIN pc[t].fps THEN pc[t].fps[key] ELSE fpCache[key]])

RaceNext ==
    \E t \in Threads :
        \/ \E a \in RaceArgs : Enter(t, a)
        \/ LoadReturn(t)
        \/ EncodeMiss(t)
        \/ EncodeStore(t)
        \/ Rank(t)

SpecRace == RaceInit /\ [][RaceNext]_vars

\* what a call of knn with the key returns in a process with one thread and
\* empty caches, as its caller sees it
SequentialView(key) ==
    LET out == KnnImpl(Load(env), env.seed, << >>, precomp, env.encoder,
                       key.family, key.features, key.k, key.relax)
    IN  Deref([out.pack EXCEPT !.precedents = 1], <<out.pack.precedents>>, Load(env))

\* the entries of the knn cache under the key
EntriesOf(key) == {i \in 1..Len(knnCache) : KeyEq(knnCache[i].key, key)}

----------------------------------------------------------------------------
(* C23 *)

\* C23: in every interleaving of knn calls of several threads, also when they
\* race on the same missing key of the result cache or of the fingerprint
\* cache, each caller receives the pack a sequential call returns, the result
\* cache holds one entry with that pack for every key a call has returned
\* for and never two entries for a key, and every fingerprint in the
\* fingerprint cache is the vector a sequential encode returns.
C23_RacingCallsKeepCachesSound ==
    /\ \A i \in 1..Len(history) :
          /\ history[i].exc = "none"
          /\ history[i].view = SequentialView(history[i].key)
          /\ Cardinality(EntriesOf(history[i].key)) = 1
    /\ \A i \in 1..Len(knnCache) :
          /\ Cardinality(EntriesOf(knnCache[i].key)) = 1
          /\ Deref(knnCache[i].pack, listHeap, loaded.rows) = SequentialView(knnCache[i].key)
    /\ \A key \in DOMAIN fpCache :
          fpCache[key] = EncodeCached(<< >>, precomp, env.encoder, key)

\* C23 witness: two threads missed the same key, both ran _knn_impl on it with
\* the fingerprint blend (two precedents lists were built) and both encoded
\* the same missing fingerprint key; both returned, and the result cache
\* holds one entry
C23_Witness ==
    /\ \A t \in Threads : pc[t].at = "done" /\ pc[t].a.relax = RelaxDrfp
    /\ env.encoder
    /\ Len(history) = MaxThreads
    /\ Len(listHeap) = MaxThreads
    /\ Len(knnCache) = 1
    /\ \A t \in Threads : "fps" \in DOMAIN pc[t]
    /\ \E key \in DOMAIN fpCache : \A t \in Threads : key \in DOMAIN pc[t].fps

----------------------------------------------------------------------------
(* knn called again with arguments the result cache takes for a key it holds *)

MaxMemoCalls == 2       \* knn calls of one process

ROrtho == [R1 EXCEPT !.reaction_id = Word("R7"),
                     !.features = ("ortho_count" :> IntV(2)) @@ FBrAniline]

QOrthoTrue == ("ortho_count" :> BoolV(TRUE))
QOrthoOne == ("ortho_count" :> IntV(1))

MemoArgs ==
    [family : {<<"Ullmann_CN">>}, features : {QOrthoTrue, QOrthoOne, QBinOnly}, k : {1, 5},
     relax : {RelaxNone, RelaxBroad}]

MemoInit ==
    /\ \E f \in {<<Line(ROrtho)>>, <<Line(ROrtho), Line(R2)>>, <<Line(R1)>>} :
          SvcStart([demo |-> f, dir |-> <<>>, use_dataset |-> FALSE, encoder |-> FALSE,
                    seed |-> 0], MaxMemoCalls)
    /\ SimIdle
    /\ PoolIdle
    /\ PlateIdle
    /\ RecIdle

MemoNext == \E a \in MemoArgs : Knn(a)

SpecMemo == MemoInit /\ [][MemoNext]_vars

----------------------------------------------------------------------------
(* C24 *)

\* C24 as stated: after any sequence of earlier knn calls, a knn call returns
\* the pack an uncached computation on its own arguments gives, and the
\* result cache never holds two entries whose keys are equal as maps.
C24_MemoizationTransparent ==
    /\ \A i \in 1..Len(history) :
          history[i].exc = "none" => history[i].view = SequentialView(history[i].key)
    /\ \A i, j \in 1..Len(knnCache) : i # j => knnCache[i].key # knnCache[j].key

----------------------------------------------------------------------------
(* C25 *)

\* the fallback order the selector walks
PoolOrder == IterElems(GetOr(poolIn.relax, "fallback_order", DefaultFallback))

\* the query's nucleophile class (lower case) and leaving group, given in the
\* features or else read from the query bin
PoolTargetNuc ==
    Lower(OrElse(Get(poolIn.feat, "nuc_class"),
                 OrElse(Get(ParseBin(Strip(OrElse(Get(poolIn.feat, "bin"), EmptyStr).s)),
                            <<"NUC">>), EmptyStr)).s)
PoolTargetLG ==
    OrElse(Get(poolIn.feat, "LG"),
           OrElse(Get(ParseBin(Strip(OrElse(Get(poolIn.feat, "bin"), EmptyStr).s)), <<"LG">>),
                  EmptyStr))

\* record i matches the query on the attribute a fallback key names
MatchesKey(key, i) ==
    CASE key = "nuc_class" ->
            /\ PoolTargetNuc # <<>>
            /\ Lower(OrElse(Get(poolIn.rows[i].features, "nuc_class"), EmptyStr).s) = PoolTargetNuc
      [] key = "LG" ->
            /\ Truthy(PoolTargetLG)
            /\ OrElse(Get(poolIn.rows[i].features, "LG"), EmptyStr) = PoolTargetLG
      [] key = "any" -> TRUE
      [] OTHER -> FALSE

\* the family records that are no exact-bin match
PoolNonExact ==
    {i \in 1..Len(poolIn.rows) :
        /\ poolIn.rows[i].rxn_type = StrV(poolIn.family_txt)
        /\ \A j \in 1..Len(ExactBinMatches) : ExactBinMatches[j] # i}

\* the first key of the order record i matches (past the order: none)
StageOf(i) ==
    IF \E j \in 1..Len(PoolOrder) : MatchesKey(PoolOrder[j], i)
    THEN CHOOSE j \in 1..Len(PoolOrder) :
            /\ MatchesKey(PoolOrder[j], i)
            /\ \A h \in 1..(j - 1) : ~MatchesKey(PoolOrder[h], i)
    ELSE Len(PoolOrder) + 1

\* the pool size once the first j keys of the order are added
SizeAfter(j) == Len(ExactBinMatches) + Cardinality({i \in PoolNonExact : StageOf(i) <= j})

\* the key after which broadening stops
StopKey ==
    IF \E j \in 1..Len(PoolOrder) : SizeAfter(j) >= PoolMinCandidates
    THEN CHOOSE j \in 1..Len(PoolOrder) :
            /\ SizeAfter(j) >= PoolMinCandidates
            /\ \A h \in 1..(j - 1) : SizeAfter(h) < PoolMinCandidates
    ELSE Len(PoolOrder)

\* where record i stands in the pool: exact-bin matches first, then by key
PoolStage(i) == IF i \in PoolNonExact THEN StageOf(i) ELSE 0

----------------------------------------------------------------------------
(* knn over candidates of equal and of different scores *)

MaxRankRows == 3        \* lines of the demo dataset file

TZero == [R1 EXCEPT !.reaction_id = Word("T1"), !.yield_value = IntV(0)]
TFull == [R5 EXCEPT !.reaction_id = Word("T2"), !.yield_value = IntV(100)]
TNone == [R1 EXCEPT !.reaction_id = Word("T3"), !.yield_value = NoneV]

QLgNuc == ("LG" :> Word("Br")) @@ ("nuc_class" :> Word("aniline"))

RankArgs ==
    [family : {<<"Ullmann_CN">>}, features : {QLgNuc}, k : {1, 2, 5},
     relax : {("min_candidates" :> IntV(5))}]

RankInit ==
    /\ \E f \in SeqsUpTo({Line(TZero), Line(TFull), Line(TNone), Line(R1), Line(R3)},
                         MaxRankRows) :
          SvcStart([demo |-> f, dir |-> <<>>, use_dataset |-> FALSE, encoder |-> FALSE,
                    seed |-> 0], MaxCalls)
    /\ SimIdle
    /\ PoolIdle
    /\ PlateIdle
    /\ RecIdle

RankNext == \E a \in RankArgs : Knn(a)

SpecRank == RankInit /\ [][RankNext]_vars

\* the neighbor_score the last call gave row i, in units of 1/(200*ONE)
CallScoreOf(i) ==
    NeighborScore(CallSimTotal(i), loaded.rows[i].yield_value)

\* the yield a precedent shows, an absent one counting as 0
ShownYield(p) == IF p.yield.t = "int" THEN p.yield.n ELSE 0

----------------------------------------------------------------------------
(* C26 *)

\* C26: the precedents of a returned pack stand in order of non-increasing
\* neighbor_score, precedents of equal neighbor_score in order of
\* non-increasing yield; each is a candidate the scoring loop kept, and no
\* kept candidate left out of the precedents has a higher neighbor_score than
\* one of them.
C26_PrecedentsRankedByScoreThenYield ==
    Returned =>
        LET P == LastPack.precedents
        IN  /\ \A p, q \in 1..Len(P) :
                  p < q => \/ CallScoreOf(P[p].p.row) > CallScoreOf(P[q].p.row)
                           \/ /\ CallScoreOf(P[p].p.row) = CallScoreOf(P[q].p.row)
                              /\ ShownYield(P[p].p) >= ShownYield(P[q].p)
            /\ \A p \in 1..Len(P) : \E j \in 1..Len(CallScored) : CallScored[j].idx = P[p].p.row
            /\ \A j \in 1..Len(CallScored) :
                  (\A p \in 1..Len(P) : P[p].p.row # CallScored[j].idx)
                      => \A p \in 1..Len(P) : CallScoreOf(P[p].p.row) >= CallScored[j].score

\* C26 witness: three candidates were scored and two are shown; the two have
\* the same neighbor_score, and the one of yield 100 stands before the one of
\* yield 0 although it comes later in the dataset.
C26_Witness ==
    /\ Returned /\ LastPack.support = 3 /\ Len(LastPack.precedents) = 2
    /\ CallScoreOf(LastPack.precedents[1].p.row) = CallScoreOf(LastPack.precedents[2].p.row)
    /\ LastPack.precedents[1].p.yield = IntV(100)
    /\ LastPack.precedents[2].p.yield = IntV(0)
    /\ LastPack.precedents[1].p.row > LastPack.precedents[2].p.row

----------------------------------------------------------------------------
(* The recommender and the plate designer under constraint rules *)

MaxFilterPrecs == 3     \* precedents of the pack both work from

PB == [P1 EXCEPT !.reaction_id = Word("R8"), !.base_uid = Word("Cs2CO3")]

FilterRules ==
    {NoRules,
     ("blacklist" :> ListV(<<"k3po4">>)),
     ("blacklist" :> ListV(<<"K3PO4", "DMSO">>)),
     ("inventory" :> ListV(<<"Cs2CO3">>)),
     ("inventory" :> ListV(<<"cs2co3", "DMF", "DMSO">>)) @@ ("blacklist" :> ListV(<<"dmf">>)),
     ("blacklist" :> ListV(<<"K3PO4", "Cs2CO3", "DMSO", "DMF">>))}

FilterSizes == {1, 3}

FilterInit ==
    /\ \E precs \in SeqsUpTo({P1, PB, P2, P3, P5}, MaxFilterPrecs), rules \in FilterRules,
          size \in FilterSizes :
          /\ recIn = [precs |-> precs, support |-> Len(precs), rules |-> rules]
          /\ plateIn = [precs |-> precs, plate_size |-> size, rules |-> rules]
    /\ recOut = [exc |-> "notrun", rec |-> NoRec]
    /\ plateOut = [exc |-> "notrun", rows |-> <<>>, csv |-> <<>>, error |-> Absent]
    /\ SvcStart(IdleEnv, 0)
    /\ SimIdle
    /\ PoolIdle

FilterNext == RunRecommend \/ RunPlate

SpecFilter == FilterInit /\ [][FilterNext]_vars

\* the constraint filter allows the id under the rules: it is not on a
\* non-empty blacklist and it is on the inventory when there is one
Allowed(id, rules) ==
    LET norm(x) == Lower(Strip(x))
        listed(key) == IF key \in DOMAIN rules
                       THEN {norm(<<rules[key].s[j]>>) : j \in 1..Len(rules[key].s)}
                       ELSE {}
    IN  /\ norm(id) \notin listed("blacklist")
        /\ listed("inventory") # {} => norm(id) \in listed("inventory")

\* the precedents sharing the chosen core, all of them without a chosen core
RecGroup ==
    IF Truthy(recOut.rec.core)
    THEN SelectSeq(recIn.precs, LAMBDA p : Truthy(p.core) /\ p.core.s = recOut.rec.core.s)
    ELSE recIn.precs

\* the identifiers under key the precedents of items carry, one per precedent
\* that has one
IdsOf(items, key) ==
    LET kept == SelectSeq(items, LAMBDA p : p[key].t = "str" /\ p[key].s # <<>>)
    IN  [j \in 1..Len(kept) |-> kept[j][key].s]

\* the recommender's pick under key is the one C27 describes
PickIsFirstAllowed(key) ==
    LET grp == IdsOf(RecGroup, key)
        all == IdsOf(recIn.precs, key)
        pick == recOut.rec[key]
        okIn(ids) == {j \in 1..Len(ids) : Allowed(ids[j], recIn.rules)}
    IN  IF okIn(grp) # {}
        THEN /\ pick.t = "str"
             /\ \E j \in okIn(grp) :
                   /\ grp[j] = pick.s
                   /\ \A h \in okIn(grp) : Count(grp, grp[h]) <= Count(grp, grp[j])
        ELSE IF okIn(all) # {}
        THEN /\ pick.t = "str"
             /\ \E j \in okIn(all) : all[j] = pick.s /\ \A h \in okIn(all) : j <= h
        ELSE pick = NoneV

----------------------------------------------------------------------------
(* C27 *)

\* C27: the recommender's base_uid, and likewise its solvent_uid, is the first
\* identifier the constraint filter allows in the frequency-ranked list of
\* the precedents sharing the chosen core; when that list is empty or holds
\* no allowed identifier, it is the first allowed identifier of the full
\* precedent list; it is None only when that list has no allowed one either.
C27_PickFirstAllowedThenRetry ==
    RecRan => PickIsFirstAllowed("base_uid") /\ PickIsFirstAllowed("solvent_uid")

\* C27 witness: the most frequent base of the chosen core's precedents is
\* blocked and the pick is their other base; every solvent of theirs is
\* blocked and the pick is the solvent of a precedent of another core.
C27_Witness ==
    /\ RecRan /\ recIn.precs = <<P1, PB, P2>>
    /\ recIn.rules = ("blacklist" :> ListV(<<"K3PO4", "DMSO">>))
    /\ recOut.rec.core = Word("CuI/L1")
    /\ recOut.rec.base_uid = Word("Cs2CO3")
    /\ recOut.rec.solvent_uid = Word("DMF")

----------------------------------------------------------------------------
(* C29 *)

\* C29: under non-empty constraint rules, the base_uid and the solvent_uid the
\* recommender returns are None or an identifier the filter allows, and the
\* base_uid and the solvent_uid of every plate well are empty or an
\* identifier the filter allows.
C29_OnlyAllowedIdsAreOutput ==
    /\ (RecRan /\ recIn.rules # NoRules) =>
          \A key \in {"base_uid", "solvent_uid"} :
              \/ recOut.rec[key] = NoneV
              \/ recOut.rec[key].t = "str" /\ Allowed(recOut.rec[key].s, recIn.rules)
    /\ (plateOut.exc = "none" /\ plateIn.rules # NoRules) =>
          \A i \in 1..Len(plateOut.rows) : \A key \in {"base_uid", "solvent_uid"} :
              \/ plateOut.rows[i][key] = EmptyStr
              \/ Allowed(plateOut.rows[i][key].s, plateIn.rules)

\* C29 witness: under an inventory of one base, the recommender and a plate of
\* three wells ran on precedents that carry a blocked base and blocked
\* solvents: the wells hold the allowed base and no solvent.
C29_Witness ==
    /\ RecRan /\ plateOut.exc = "none" /\ Len(plateOut.rows) = 3
    /\ plateIn.rules = ("inventory" :> ListV(<<"Cs2CO3">>))
    /\ plateIn.precs = <<P1, PB, P2>>
    /\ \A i \in 1..3 : /\ plateOut.rows[i].base_uid = Word("Cs2CO3")
                       /\ plateOut.rows[i].solvent_uid = EmptyStr
    /\ recOut.rec.base_uid = Word("Cs2CO3") /\ recOut.rec.solvent_uid = NoneV

----------------------------------------------------------------------------
(* encode_drfp_cached and load_precomputed_npz called in any order *)

MaxPreloadSteps == 3    \* calls of encode_drfp_cached and of load_precomputed_npz

EncodeKeys == {<<(<<"HIGH_RS">>), DRFP_BITS, DRFP_RADIUS>>, <<(<<"LOW_RS">>), DRFP_BITS, DRFP_RADIUS>>}

\* the serialized indexes: the vectors stored under their keys
PreloadIndexes ==
    {(<<(<<"HIGH_RS">>), DRFP_BITS, DRFP_RADIUS>> :> FP({7})),
     (<<(<<"HIGH_RS">>), DRFP_BITS, DRFP_RADIUS>> :> FP({7}))
        @@ (<<(<<"LOW_RS">>), DRFP_BITS, DRFP_RADIUS>> :> FP({8}))}

PreloadInit ==
    /\ \E enc \in BOOLEAN :
          SvcStart([demo |-> <<>>, dir |-> <<>>, use_dataset |-> FALSE, encoder |-> enc,
                    seed |-> 0], MaxPreloadSteps)
    /\ SimIdle
    /\ PoolIdle
    /\ PlateIdle
    /\ RecIdle

\* one call of encode_drfp_cached(key); the history keeps what it returned
\* and what the precomputed store held under the key at the call
EncodeCall(key) ==
    /\ budget > 0
    /\ budget' = budget - 1
    /\ fpCache' = FpCacheAfter(fpCache, precomp, env.encoder, {key})
    /\ history' = Append(history,
                     [key |-> key, exc |-> "none",
                      view |-> EncodeCached(fpCache, precomp, env.encoder, key),
                      preloaded |-> key \in DOMAIN precomp,
                      stored |-> IF key \in DOMAIN precomp THEN precomp[key] ELSE FPNone])
    /\ UNCHANGED <<env, precomp, loaded, loadCount, knnCache, listHeap, call, ret, pc,
                   simVars, poolVars, plateVars, recVars>>

\* load_precomputed_npz: every vector of the index goes into the store under
\* its key
Preload(index) ==
    /\ budget > 0
    /\ budget' = budget - 1
    /\ precomp' = [key \in DOMAIN precomp \cup DOMAIN index |->
                      IF key \in DOMAIN index THEN index[key] ELSE precomp[key]]
    /\ UNCHANGED <<env, fpCache, history, loaded, loadCount, knnCache, listHeap, call, ret, pc,
                   simVars, poolVars, plateVars, recVars>>

PreloadNext ==
    \/ \E key \in EncodeKeys : EncodeCall(key)
    \/ \E index \in PreloadIndexes : Preload(index)

SpecPreload == PreloadInit /\ [][PreloadNext]_vars

----------------------------------------------------------------------------
(* C28 *)

\* C28 as stated: every cached encode call made after a preload stored a
\* vector under its key returns that vector, whatever encode calls were made
\* before the preload.
C28_PreloadedVectorReturned ==
    \A i \in 1..Len(history) :
        history[i].preloaded => history[i].view = history[i].stored

----------------------------------------------------------------------------
(* _similarity called with its two arguments in both orders *)

MaxSymCalls == 2    \* calls of _similarity on one pair of dicts

SymOptions ==
    [bin : {Absent, StrV(BinBrAniline)},
     LG : {Word("Br"), NoneV},
     nuc_class : {Word("aniline")},
     ortho_count : {IntV(0), Word("0"), BoolV(TRUE)},
     para_EWG : {Absent, BoolV(FALSE)},
     heteroaryl : {Absent},
     T_C : {Absent, IntV(50), IntV(100), Word("hot")},
     time_h : {Absent, IntV(8)}]

SymFeatures == {MkFeat(o) : o \in SymOptions}

SymInit ==
    /\ simA \in SymFeatures
    /\ simB \in SymFeatures
    /\ simOut = NotRun
    /\ SvcStart(IdleEnv, MaxSymCalls)
    /\ PoolIdle
    /\ PlateIdle
    /\ RecIdle

\* one call of _similarity(simA, simB) or of _similarity(simB, simA); the
\* history keeps the order of the arguments and the score returned
ScoreInOrder(order) ==
    /\ budget > 0
    /\ budget' = budget - 1
    /\ simOut' = IntV(IF order = "ab" THEN Similarity(simA, simB) ELSE Similarity(simB, simA))
    /\ history' = Append(history, [key |-> order, exc |-> "none", view |-> simOut'])
    /\ UNCHANGED <<simA, simB, env, loaded, loadCount, knnCache, listHeap, fpCache, precomp,
                   call, ret, pc, poolVars, plateVars, recVars>>

ScoreForward == ScoreInOrder("ab")
ScoreBackward == ScoreInOrder("ba")

SymNext == ScoreForward \/ ScoreBackward

SpecSym == SymInit /\ [][SymNext]_vars

----------------------------------------------------------------------------
(* C30 *)

\* C30: similarity(a, b) = similarity(b, a) for all feature dicts a and b,
\* also when only one of them carries a bin string, a boolean attribute value
\* or a numeric T_C / time_h.
C30_SimilaritySymmetric ==
    \A i \in 1..Len(history) : \A j \in 1..Len(history) :
        history[i].view = history[j].view

\* C30 witness: both orders were scored for a pair in which only the first
\* dict has a bin string, a boolean ortho_count and numeric T_C and time_h,
\* and the score lies strictly between 0 and 1.
C30_Witness ==
    /\ Len(history) = 2 /\ history[1].key = "ab" /\ history[2].key = "ba"
    /\ HasBin(simA) /\ ~HasBin(simB)
    /\ simA["ortho_count"].t = "bool" /\ simB["ortho_count"].t # "bool"
    /\ "T_C" \in DOMAIN simA /\ FloatOk(simA["T_C"]) /\ "T_C" \notin DOMAIN simB
    /\ "time_h" \in DOMAIN simA /\ "time_h" \notin DOMAIN simB
    /\ history[1].view.n > 0 /\ history[1].view.n < ONE

====
